---------------------------- MODULE Spec2Model ----------------------------
(***************************************************************************)
(* A model of the k8s-jumperless utilities:                                *)
(*                                                                         *)
(*   - the hardware-state emulator of utils/jumperless-emulator            *)
(*     (emulator.go, with the configuration types of its config.go);       *)
(*   - the chunk-based emulator of utils/internal/emulator (its reader and *)
(*     delivery loop); definitions whose names end in 2 belong to it;      *)
(*   - the device-output parser of internal/controller/local.              *)
(*                                                                         *)
(* Text is a sequence of tokens.  A token is a string that stands for one  *)
(* lexical piece of the wire text: one character ("(", ",", "3", " ") or   *)
(* one word ("set_dac", "TOP_RAIL").  Regular expressions of the source    *)
(* are matched over these sequences as Go's regexp package matches them    *)
(* over bytes (leftmost match, greedy runs).                               *)
(***************************************************************************)
EXTENDS Integers, Sequences, FiniteSets, TLC

(***************************************************************************)
(* Text helpers (package strings, package regexp)                          *)
(***************************************************************************)

Digits == {"0", "1", "2", "3", "4", "5", "6", "7", "8", "9"}

DigitVal(d) ==
    CASE d = "0" -> 0 [] d = "1" -> 1 [] d = "2" -> 2 [] d = "3" -> 3
      [] d = "4" -> 4 [] d = "5" -> 5 [] d = "6" -> 6 [] d = "7" -> 7
      [] d = "8" -> 8 [] d = "9" -> 9

DigitTok(n) ==
    CASE n = 0 -> "0" [] n = 1 -> "1" [] n = 2 -> "2" [] n = 3 -> "3"
      [] n = 4 -> "4" [] n = 5 -> "5" [] n = 6 -> "6" [] n = 7 -> "7"
      [] n = 8 -> "8" [] n = 9 -> "9"

\* Tokens that are words of the class \w (letters, digits, underscore).
WordToks == Digits \cup {"A", "B", "C", "TOP_RAIL", "x", "dac_get", "set_dac",
                         "gpio_set", "connect", "disconnect", "clear", "V", "ok"}

IsDigit(t) == t \in Digits
IsWord(t) == t \in WordToks
IsSpace(t) == t \in {" ", "\n", "\r", "\t"}
NotComma(t) == t # "" /\ t # ","
NotRParen(t) == t # "" /\ t # ")"
NotColon(t) == t # "" /\ t # ":"
NotRBrace(t) == t # "" /\ t # "}}"
IsNumChar(t) == t \in Digits \cup {"."}

\* s[k], or "" (no token) outside the text.
At(s, k) == IF k \in 1..Len(s) THEN s[k] ELSE ""

\* The last index j >= i-1 such that every token of s[i..j] satisfies P and
\* the run cannot be extended: a greedy character-class repetition.
RunEnd(s, i, P(_)) ==
    IF i < 1 \/ i > Len(s) THEN i - 1
    ELSE CHOOSE j \in (i-1)..Len(s) :
            /\ \A k \in i..j : P(s[k])
            /\ (j = Len(s) \/ ~P(s[j+1]))

\* strings.TrimSpace
TrimSpace(s) ==
    LET lead == RunEnd(s, 1, IsSpace)
        rest == SubSeq(s, lead + 1, Len(s))
        keep == IF rest = <<>> THEN 0
                ELSE CHOOSE j \in 1..Len(rest) :
                        /\ ~IsSpace(rest[j])
                        /\ \A k \in (j+1)..Len(rest) : IsSpace(rest[k])
    IN  SubSeq(rest, 1, keep)

\* strings.Contains
Contains(s, p) ==
    \E i \in 0..(Len(s) - Len(p)) : SubSeq(s, i + 1, i + Len(p)) = p


Min(S) == CHOOSE x \in S : \A y \in S : x <= y

(***************************************************************************)
(* Numbers.  A float64 voltage is [neg, mag]: its sign bit and its         *)
(* magnitude in thousandths of a volt (the request texts drawn below have  *)
(* at most three fraction digits, and none ends in a 5 at the      *)
(* third, so the two-decimal rounding of Sprintf is the nearest            *)
(* hundredth).                                                             *)
(***************************************************************************)

RECURSIVE NumVal(_)
NumVal(ds) ==
    IF ds = <<>> THEN 0
    ELSE 10 * NumVal(SubSeq(ds, 1, Len(ds) - 1)) + DigitVal(ds[Len(ds)])

RECURSIVE Dec(_)
Dec(n) == IF n < 10 THEN <<DigitTok(n)>> ELSE Dec(n \div 10) \o <<DigitTok(n % 10)>>

\* The regular expression ^[+-]?\d*\.?\d+$ of parseFloat.
IsFloatText(s) ==
    LET body == IF At(s, 1) \in {"+", "-"} THEN SubSeq(s, 2, Len(s)) ELSE s
        dots == {k \in 1..Len(body) : body[k] = "."}
    IN  /\ body # <<>>
        /\ \A k \in 1..Len(body) : IsNumChar(body[k])
        /\ Cardinality(dots) <= 1
        /\ IsDigit(body[Len(body)])

\* parseFloat: the text is checked against the regular expression and then
\* scanned with Sscanf("%f"); anything else is 0.0.
parseFloat(s) ==
    IF IsFloatText(s)
    THEN LET body == IF At(s, 1) \in {"+", "-"} THEN SubSeq(s, 2, Len(s)) ELSE s
             dots == {k \in 1..Len(body) : body[k] = "."}
             dot  == IF dots = {} THEN Len(body) + 1 ELSE Min(dots)
             ip   == SubSeq(body, 1, dot - 1)
             fp   == SubSeq(body, dot + 1, Len(body))
             fp3  == SubSeq(fp \o <<"0", "0", "0">>, 1, 3)
         IN  [neg |-> At(s, 1) = "-", mag |-> 1000 * NumVal(ip) + NumVal(fp3)]
    ELSE [neg |-> FALSE, mag |-> 0]

\* parseInt: ^\d+$ and Sscanf("%d"); anything else is 0.
parseInt(s) ==
    IF s # <<>> /\ \A k \in 1..Len(s) : IsDigit(s[k]) THEN NumVal(s) ELSE 0

\* fmt.Sprintf("%.2fV", v)
FormatVoltage(v) ==
    LET h == (v.mag + 5) \div 10
    IN  (IF v.neg THEN <<"-">> ELSE <<>>)
        \o Dec(h \div 100) \o <<".">>
        \o <<DigitTok((h \div 10) % 10), DigitTok(h % 10), "V">>

\* A set_dac block without its range check.
mAnyVoltage(v) == TRUE

\* voltage >= -8.0 && voltage <= 8.0
InDacRange(v) == v.mag <= 8000


(***************************************************************************)
(* Hardware state (Config.Jumperless) and the command grammars of          *)
(* processHardwareCommand.  Map keys and node names are texts.             *)
(***************************************************************************)

NoMatch == [ok |-> FALSE, a |-> <<>>, b |-> <<>>]

\* set_dac\((\d+),\s*([+-]?\d*\.?\d+)\) tried at token i.
SetDacAt(s, i) ==
    LET d  == RunEnd(s, i + 2, IsDigit)
        sp == RunEnd(s, d + 2, IsSpace)
        v0 == sp + 1
        n0 == IF At(s, v0) \in {"+", "-"} THEN v0 + 1 ELSE v0
        e  == RunEnd(s, n0, IsNumChar)
    IN  IF /\ At(s, i) = "set_dac" /\ At(s, i + 1) = "("
           /\ d >= i + 2 /\ At(s, d + 1) = ","
           /\ IsFloatText(SubSeq(s, v0, e))
           /\ At(s, e + 1) = ")"
        THEN [ok |-> TRUE, a |-> SubSeq(s, i + 2, d), b |-> SubSeq(s, v0, e)]
        ELSE NoMatch

\* gpio_set\((\d+),\s*([01])\) tried at token i.
GpioSetAt(s, i) ==
    LET d  == RunEnd(s, i + 2, IsDigit)
        sp == RunEnd(s, d + 2, IsSpace)
    IN  IF /\ At(s, i) = "gpio_set" /\ At(s, i + 1) = "("
           /\ d >= i + 2 /\ At(s, d + 1) = ","
           /\ At(s, sp + 1) \in {"0", "1"}
           /\ At(s, sp + 2) = ")"
        THEN [ok |-> TRUE, a |-> SubSeq(s, i + 2, d), b |-> <<s[sp + 1]>>]
        ELSE NoMatch

\* The text of the word at token i ends in "connect": the unanchored
\* expression connect\(...\) also matches inside disconnect(...).
EndsInConnect(t) == t \in {"connect", "disconnect"}

\* word\(([^,]+),\s*([^)]+)\) tried at token i, the word already matched.
\* The first group is the run up to the first comma; \s* gives back a
\* space when the second group would otherwise be empty.
PairAt(s, i) ==
    LET c  == RunEnd(s, i + 2, NotComma)
        e  == RunEnd(s, c + 2, NotRParen)
    IN  IF /\ At(s, i + 1) = "("
           /\ c >= i + 2 /\ At(s, c + 1) = ","
           /\ e >= c + 2 /\ At(s, e + 1) = ")"
        THEN [ok |-> TRUE, a |-> TrimSpace(SubSeq(s, i + 2, c)),
                           b |-> TrimSpace(SubSeq(s, c + 2, e))]
        ELSE NoMatch

ConnectAt(s, i) == IF EndsInConnect(At(s, i)) THEN PairAt(s, i) ELSE NoMatch
DisconnectAt(s, i) == IF At(s, i) = "disconnect" THEN PairAt(s, i) ELSE NoMatch

\* clear\(\)
ClearAt(s, i) ==
    IF At(s, i) = "clear" /\ At(s, i + 1) = "(" /\ At(s, i + 2) = ")"
    THEN [ok |-> TRUE, a |-> <<>>, b |-> <<>>] ELSE NoMatch

\* regex.FindStringSubmatch: the leftmost match of the grammar.
FirstMatch(s, M(_, _)) ==
    LET I == {i \in 1..Len(s) : M(s, i).ok}
    IN  IF I = {} THEN NoMatch ELSE M(s, Min(I))

SetDacMatch(request)     == FirstMatch(request, SetDacAt)
GpioSetMatch(request)    == FirstMatch(request, GpioSetAt)
ConnectMatch(request)    == FirstMatch(request, ConnectAt)
DisconnectMatch(request) == FirstMatch(request, DisconnectAt)
ClearMatch(request)      == FirstMatch(request, ClearAt)

\* m[k] = v on a Go map.
Put(m, k, v) == [x \in DOMAIN m \cup {k} |-> IF x = k THEN v ELSE m[x]]

\* The zero value of GPIOPin, read from the map for a missing key.
ZeroPin == [Value |-> 0, Direction |-> "", Pull |-> ""]

SamePair(conn, nodeA, nodeB) ==
    \/ (conn.NodeA = nodeA /\ conn.NodeB = nodeB)
    \/ (conn.NodeA = nodeB /\ conn.NodeB = nodeA)

\* An isConnected that compares the pair in the order given only.
mIsConnectedOrdered(conns, nodeA, nodeB) ==
    \E i \in 1..Len(conns) : conns[i].NodeA = nodeA /\ conns[i].NodeB = nodeB

isConnected(conns, nodeA, nodeB) ==
    \E i \in 1..Len(conns) : SamePair(conns[i], nodeA, nodeB)

\* The append of addConnection.
appendConnection(conns, nodeA, nodeB) ==
    Append(conns, [NodeA |-> nodeA, NodeB |-> nodeB])

addConnection(conns, nodeA, nodeB) ==
    IF isConnected(conns, nodeA, nodeB) THEN conns
    ELSE appendConnection(conns, nodeA, nodeB)

removeConnection(conns, nodeA, nodeB) ==
    LET I == {i \in 1..Len(conns) : SamePair(conns[i], nodeA, nodeB)}
    IN  IF I = {} THEN conns
        ELSE SubSeq(conns, 1, Min(I) - 1) \o SubSeq(conns, Min(I) + 1, Len(conns))

\* A processHardwareCommand without its set_dac block.
mNoSetDac(j, request) == j

\* The set_dac block of processHardwareCommand.
applySetDac(j, request) ==
    LET m == SetDacMatch(request)
    IN  IF m.ok /\ InDacRange(parseFloat(m.b))
        THEN [j EXCEPT !.DACChannels = Put(@, m.a, [Voltage |-> parseFloat(m.b)])]
        ELSE j

\* A gpio_set block that stores a new pin instead of updating the old one.
mGpioSetFresh(j, request) ==
    LET m == GpioSetMatch(request)
    IN  IF m.ok
        THEN [j EXCEPT !.GPIOPins = Put(@, m.a, [ZeroPin EXCEPT !.Value = parseInt(m.b)])]
        ELSE j

\* The gpio_set block of processHardwareCommand.
applyGpioSet(j, request) ==
    LET m == GpioSetMatch(request)
        currentPin == IF m.a \in DOMAIN j.GPIOPins THEN j.GPIOPins[m.a] ELSE ZeroPin
    IN  IF m.ok
        THEN [j EXCEPT !.GPIOPins = Put(@, m.a, [currentPin EXCEPT !.Value = parseInt(m.b)])]
        ELSE j

\* The disconnect and clear blocks of processHardwareCommand.
applyDisconnect(j, request) ==
    LET m == DisconnectMatch(request)
    IN  IF m.ok THEN [j EXCEPT !.Connections = removeConnection(@, m.a, m.b)] ELSE j

\* A processHardwareCommand without its clear block.
mNoClear(j, request) == j

applyClear(j, request) ==
    IF ClearMatch(request).ok THEN [j EXCEPT !.Connections = <<>>] ELSE j


(***************************************************************************)
(* Configured patterns.  A regular expression is a text whose tokens are   *)
(* literals, the escaped parentheses \( and \), and the capture group      *)
(* (\d+); the token "[" opens a character class that is never closed, so   *)
(* an expression holding it does not compile.                              *)
(***************************************************************************)

RegexCompiles(pat) == \A k \in 1..Len(pat) : pat[k] # "["

RegexLit(t) == IF t = "\\(" THEN "(" ELSE IF t = "\\)" THEN ")" ELSE t

\* The expression's items from k on matched at token i of s: [ok, end, g]
\* with end the last token matched and g the text of the capture group.
RECURSIVE RegexFrom(_, _, _, _, _)
RegexFrom(pat, k, s, i, g) ==
    IF k > Len(pat) THEN [ok |-> TRUE, end |-> i - 1, g |-> g]
    ELSE IF pat[k] = "(\\d+)"
         THEN LET d == RunEnd(s, i, IsDigit)
              IN  IF d >= i THEN RegexFrom(pat, k + 1, s, d + 1, SubSeq(s, i, d))
                  ELSE [ok |-> FALSE, end |-> 0, g |-> <<>>]
         ELSE IF At(s, i) = RegexLit(pat[k]) THEN RegexFrom(pat, k + 1, s, i + 1, g)
              ELSE [ok |-> FALSE, end |-> 0, g |-> <<>>]

\* regexp.MatchString: an expression that does not compile gives
\* (false, err), which the callers read as no match.
RegexMatchString(pat, s) ==
    /\ RegexCompiles(pat)
    /\ \E i \in 1..Len(s) : RegexFrom(pat, 1, s, i, <<>>).ok

\* Regexp.Expand of the template: $1 is the capture group.
RECURSIVE Expand(_, _)
Expand(repl, g) ==
    IF repl = <<>> THEN <<>>
    ELSE (IF repl[1] = "$1" THEN g ELSE <<repl[1]>>) \o Expand(Tail(repl), g)

\* Regexp.ReplaceAllString(src, repl) from token i on: every leftmost
\* non-overlapping match in src is replaced, the rest of src is kept.
RECURSIVE ReplaceAllFrom(_, _, _, _)
ReplaceAllFrom(pat, src, repl, i) ==
    IF i > Len(src) THEN <<>>
    ELSE LET m == RegexFrom(pat, 1, src, i, <<>>)
         IN  IF m.ok /\ m.end >= i
             THEN Expand(repl, m.g) \o ReplaceAllFrom(pat, src, repl, m.end + 1)
             ELSE <<src[i]>> \o ReplaceAllFrom(pat, src, repl, i + 1)

ReplaceAllString(pat, src, repl) == ReplaceAllFrom(pat, src, repl, 1)

(***************************************************************************)
(* replacePlaceholders                                                     *)
(***************************************************************************)

\* The replacement function of one of the three single-id placeholders.
Resolve(j, open, id) ==
    CASE open = "{{dac_voltage:" ->
            IF id \in DOMAIN j.DACChannels
            THEN FormatVoltage(j.DACChannels[id].Voltage) ELSE <<"0", ".", "0", "0", "V">>
      [] open = "{{adc_voltage:" ->
            IF id \in DOMAIN j.ADCChannels
            THEN FormatVoltage(j.ADCChannels[id].Voltage) ELSE <<"0", ".", "0", "0", "V">>
      [] open = "{{gpio_value:" ->
            IF id \in DOMAIN j.GPIOPins THEN Dec(j.GPIOPins[id].Value) ELSE <<"0">>

\* ReplaceAllStringFunc for \{\{<name>:(\w+)\}\}, from token i on.
RECURSIVE ReplaceIdFrom(_, _, _, _)
ReplaceIdFrom(j, open, s, i) ==
    IF i > Len(s) THEN <<>>
    ELSE LET e == RunEnd(s, i + 1, IsWord)
         IN  IF s[i] = open /\ e >= i + 1 /\ At(s, e + 1) = "}}"
             THEN Resolve(j, open, SubSeq(s, i + 1, e)) \o ReplaceIdFrom(j, open, s, e + 2)
             ELSE <<s[i]>> \o ReplaceIdFrom(j, open, s, i + 1)

\* ReplaceAllStringFunc for \{\{is_connected:([^:]+):([^}]+)\}\}.
RECURSIVE ReplaceConnFrom(_, _, _)
ReplaceConnFrom(j, s, i) ==
    IF i > Len(s) THEN <<>>
    ELSE LET a == RunEnd(s, i + 1, NotColon)
             b == RunEnd(s, a + 2, NotRBrace)
         IN  IF /\ s[i] = "{{is_connected:"
                /\ a >= i + 1 /\ At(s, a + 1) = ":"
                /\ b >= a + 2 /\ At(s, b + 1) = "}}"
             THEN (IF isConnected(j.Connections, SubSeq(s, i + 1, a), SubSeq(s, a + 2, b))
                   THEN <<"true">> ELSE <<"false">>)
                  \o ReplaceConnFrom(j, s, b + 2)
             ELSE <<s[i]>> \o ReplaceConnFrom(j, s, i + 1)

replacePlaceholders(j, response) ==
    LET r1 == ReplaceIdFrom(j, "{{dac_voltage:", response, 1)
        r2 == ReplaceIdFrom(j, "{{adc_voltage:", r1, 1)
        r3 == ReplaceIdFrom(j, "{{gpio_value:", r2, 1)
    IN  ReplaceConnFrom(j, r3, 1)


(***************************************************************************)
(* Response selection (RequestResponse.GetResponse).  The option is        *)
(* returned as its 0-based index; -1 stands for the single Response field  *)
(* and -2 for no response at all.  draw is the value of rand.Intn.         *)
(***************************************************************************)

Weight(resp) == IF resp.Weight <= 0 THEN 1 ELSE resp.Weight

RECURSIVE TotalWeight(_)
TotalWeight(rs) == IF rs = <<>> THEN 0 ELSE Weight(rs[1]) + TotalWeight(Tail(rs))

getSequentialResponse(rr, counter) == counter % Len(rr.Responses)

\* The values rand.Intn can return for the mapping's selection mode.
Draws(rr) ==
    IF Len(rr.Responses) < 2 \/ rr.Response # <<>> THEN {0}
    ELSE CASE rr.ResponseConfig.SelectionMode = "random" -> 0..(Len(rr.Responses) - 1)
           [] rr.ResponseConfig.SelectionMode = "weighted" -> 0..(TotalWeight(rr.Responses) - 1)
           [] OTHER -> {0}

getRandomResponse(rr, draw) == draw

\* A scan that stops at the first cumulative weight the draw does not exceed.
mWeightedAtOrAbove(rr, draw) ==
    LET n == Len(rr.Responses)
        I == {i \in 1..n : TotalWeight(SubSeq(rr.Responses, 1, i)) >= draw}
    IN  IF I = {} THEN n - 1 ELSE Min(I) - 1

\* The first option whose cumulative weight exceeds the draw.
getWeightedResponse(rr, draw) ==
    LET n == Len(rr.Responses)
        I == {i \in 1..n : TotalWeight(SubSeq(rr.Responses, 1, i)) > draw}
    IN  IF I = {} THEN n - 1 ELSE Min(I) - 1

GetResponseIndex(rr, requestCounter, draw) ==
    IF rr.Response # <<>> THEN -1
    ELSE IF Len(rr.Responses) = 0 THEN -2
    ELSE IF Len(rr.Responses) = 1 THEN 0
    ELSE CASE rr.ResponseConfig.SelectionMode = "sequential" ->
                  getSequentialResponse(rr, requestCounter)
           [] rr.ResponseConfig.SelectionMode = "random" -> getRandomResponse(rr, draw)
           [] rr.ResponseConfig.SelectionMode = "weighted" -> getWeightedResponse(rr, draw)
           [] OTHER -> getSequentialResponse(rr, requestCounter)

GetResponse(rr, requestCounter, draw) ==
    LET idx == GetResponseIndex(rr, requestCounter, draw)
    IN  IF idx = -1 THEN rr.Response
        ELSE IF idx = -2 THEN <<>>
        ELSE rr.Responses[idx + 1].Response

\* A sendChunkedResponse whose loop runs while a whole piece is left.
RECURSIVE mWholePiecesOnly(_, _)
mWholePiecesOnly(data, chunkSize) ==
    IF Len(data) < chunkSize THEN <<>>
    ELSE <<SubSeq(data, 1, chunkSize)>>
         \o mWholePiecesOnly(SubSeq(data, chunkSize + 1, Len(data)), chunkSize)

\* sendChunkedResponse: the response cut into pieces of chunkSize units.
RECURSIVE Pieces(_, _)
Pieces(data, chunkSize) ==
    IF data = <<>> THEN <<>>
    ELSE IF Len(data) <= chunkSize THEN <<data>>
    ELSE <<SubSeq(data, 1, chunkSize)>> \o Pieces(SubSeq(data, chunkSize + 1, Len(data)), chunkSize)

\* The writes sendResponse makes for a rendered response: chunked, or one
\* write of the whole text (sendFullResponse).
Writes(rc, responseText) ==
    IF rc.Chunked /\ rc.ChunkSize > 0 THEN Pieces(responseText, rc.ChunkSize)
    ELSE <<responseText>>


(***************************************************************************)
(* Matching (findResponse): the 1-based index of the first mapping that    *)
(* matches, 0 for nil.                                                     *)
(***************************************************************************)

\* One mapping of the hardware-state emulator against a request.
Matches(mapping, request) ==
    IF mapping.IsRegex THEN RegexMatchString(mapping.Request, request)
    ELSE Contains(request, mapping.Request)

\* A findResponse that returns the last mapping that matches.
mFindLast(mappings, request) ==
    LET I == {i \in 1..Len(mappings) : Matches(mappings[i], request)}
    IN  IF I = {} THEN 0 ELSE CHOOSE i \in I : \A k \in I : k <= i

\* A findResponse that falls back on the first mapping.
mFindFirst(mappings, request) == IF mappings = <<>> THEN 0 ELSE 1

findResponse(mappings, request) ==
    LET I == {i \in 1..Len(mappings) : Matches(mappings[i], request)}
    IN  IF I = {} THEN 0 ELSE Min(I)

\* One mapping of the chunk-based emulator against a request.
Matches2(mapping, request) == TrimSpace(request) = TrimSpace(mapping.Request)

findResponse2(mappings, request) ==
    LET I == {i \in 1..Len(mappings) : Matches2(mappings[i], request)}
    IN  IF I = {} THEN 0 ELSE Min(I)

(***************************************************************************)
(* Configurations and client input.  ResponseConfig delays are wall-clock  *)
(* waits; they appear in the model as the step boundaries of a delivery.   *)
(***************************************************************************)

RC(mode, chunked, chunkSize) ==
    [Delay |-> 1, JitterMax |-> 0, Chunked |-> chunked, ChunkSize |-> chunkSize,
     ChunkDelay |-> 1, SelectionMode |-> mode]

Opt(text, weight) == [Response |-> text, Weight |-> weight]

\* Two options served in turn, a weighted pair, overlapping patterns, and
\* weighted options with weights that are not positive.
SelectionConfig ==
    [name |-> "selection",
     Mappings |-> <<
        [Request |-> <<"?">>, IsRegex |-> FALSE, Response |-> <<>>,
         Responses |-> <<Opt(<<"a">>, 0), Opt(<<"b">>, 0)>>,
         ResponseConfig |-> RC("sequential", FALSE, 0)],
        [Request |-> <<"x">>, IsRegex |-> FALSE, Response |-> <<>>,
         Responses |-> <<Opt(<<"a", "a", "a">>, 1), Opt(<<"b", "b", "b">>, 3)>>,
         ResponseConfig |-> RC("weighted", TRUE, 2)],
        [Request |-> <<"w">>, IsRegex |-> FALSE, Response |-> <<>>,
         Responses |-> <<Opt(<<"c">>, 0), Opt(<<"d">>, 2), Opt(<<"e">>, -1)>>,
         ResponseConfig |-> RC("weighted", FALSE, 0)] >>]

\* One literal mapping that every command request contains.
HardwareConfigured ==
    [name |-> "hardware",
     Mappings |-> <<
        [Request |-> <<"(">>, IsRegex |-> FALSE,
         Response |-> <<"{{dac_voltage:", "0", "}}", "{{is_connected:", "A", ":", "B", "}}">>,
         Responses |-> <<>>,
         ResponseConfig |-> RC("", FALSE, 0)] >>]

\* One literal mapping that every command request contains, whose response
\* reads ids the state does not hold, a pin it holds, and a pair both ways.
CommandConfig ==
    [name |-> "commands",
     Mappings |-> <<
        [Request |-> <<"(">>, IsRegex |-> FALSE,
         Response |-> <<"{{dac_voltage:", "9", "}}", "{{adc_voltage:", "9", "}}",
                        "{{gpio_value:", "9", "}}", "{{gpio_value:", "0", "}}",
                        "{{is_connected:", "A", ":", "B", "}}",
                        "{{is_connected:", "B", ":", "A", "}}">>,
         Responses |-> <<>>,
         ResponseConfig |-> RC("", FALSE, 0)] >>]

\* Chunked mappings: a response of two whole pieces and a shorter one, a
\* response of two whole pieces, and chunking enabled with a chunkSize of 0
\* and of -1.
ChunkedConfig ==
    [name |-> "chunked",
     Mappings |-> <<
        [Request |-> <<"p">>, IsRegex |-> FALSE, Response |-> <<"a", "b", "c", "d", "e">>,
         Responses |-> <<>>, ResponseConfig |-> RC("", TRUE, 2)],
        [Request |-> <<"q">>, IsRegex |-> FALSE, Response |-> <<"f", "g", "h", "i">>,
         Responses |-> <<>>, ResponseConfig |-> RC("", TRUE, 2)],
        [Request |-> <<"r">>, IsRegex |-> FALSE, Response |-> <<"j", "k", "l">>,
         Responses |-> <<>>, ResponseConfig |-> RC("", TRUE, 0)],
        [Request |-> <<"s">>, IsRegex |-> FALSE, Response |-> <<"m", "n", "o">>,
         Responses |-> <<>>, ResponseConfig |-> RC("", TRUE, -1)] >>]

\* The requests a client of CommandConfig sends.
ConnectThenClear == <<"connect", "(", "A", ",", "B", ")", " ", "clear", "(", ")">>
ClearThenConnect == <<"clear", "(", ")", " ", "connect", "(", "A", ",", "B", ")">>
SetDacTooHigh    == <<"set_dac", "(", "0", ",", " ", "9", ")">>
SetDacMalformed  == <<"set_dac", "(", "0", ",", " ", "1", ".", "2", ".", "3", ")">>
GpioSetHigh      == <<"gpio_set", "(", "0", ",", " ", "1", ")">>
SetDacAndGpioLow == <<"set_dac", "(", "1", ",", "2", ")", " ", "gpio_set", "(", "0", ",", "0", ")">>

\* An expression that does not compile, the DAC query of DefaultConfig and
\* a literal mapping whose response holds a token no placeholder grammar
\* knows.
RegexConfig ==
    [name |-> "regex",
     Mappings |-> <<
        [Request |-> <<"inv", "[">>, IsRegex |-> TRUE, Response |-> <<"a">>,
         Responses |-> <<>>, ResponseConfig |-> RC("", FALSE, 0)],
        [Request |-> <<">", "dac_get", "\\(", "(\\d+)", "\\)">>, IsRegex |-> TRUE,
         Response |-> <<"$1", "=", "{{dac_voltage:", "$1", "}}">>,
         Responses |-> <<>>, ResponseConfig |-> RC("", FALSE, 0)],
        [Request |-> <<"~">>, IsRegex |-> FALSE,
         Response |-> <<"{{dac_value:", "0", "}}">>,
         Responses |-> <<>>, ResponseConfig |-> RC("", FALSE, 0)] >>]

\* The four mappings of DefaultConfig, in its order, each response cut to
\* its first lines with a placeholder (texts without one are single units).
DefaultConfig ==
    [name |-> "default",
     Mappings |-> <<
        [Request |-> <<"?">>, IsRegex |-> FALSE,
         Response |-> <<"Jumperless firmware version: 5.2.2.0", "\r\n">>,
         Responses |-> <<>>, ResponseConfig |-> RC("", FALSE, 0)],
        [Request |-> <<"~">>, IsRegex |-> FALSE,
         Response |-> <<"<BT>", "[dacs] dac0_voltage = ", "{{dac_voltage:", "0", "}}", ";", "\r\n",
                        "<BT>", "[dacs] top_rail_voltage = ", "{{dac_voltage:", "2", "}}", ";",
                        "\r\n">>,
         Responses |-> <<>>, ResponseConfig |-> RC("", FALSE, 0)],
        [Request |-> <<">", "dac_get", "\\(", "(\\d+)", "\\)">>, IsRegex |-> TRUE,
         Response |-> <<"Python> >dac_get(", "$1", ")", "\r\n",
                        "{{dac_voltage:", "$1", "}}", "\r\n">>,
         Responses |-> <<>>, ResponseConfig |-> RC("", FALSE, 0)],
        [Request |-> <<">", "print_nets", "(", ")">>, IsRegex |-> FALSE,
         Response |-> <<"Python> >print_nets()", "\r\n",
                        "4\tDAC 0\t\t ", "{{dac_value:", "0", "}}", " V      DAC_0", "\r\n",
                        "5\tDAC 1\t\t ", "{{dac_value:", "1", "}}", " V      DAC_1", "\r\n">>,
         Responses |-> <<>>, ResponseConfig |-> RC("", FALSE, 0)] >>]

Configs == {SelectionConfig, HardwareConfigured, RegexConfig}

\* What a client writes in one read of the reader, per configuration.
ReadsOf(c) ==
    CASE c.name = "selection" ->
            { <<"?">>, <<"x">>, <<"w">>, <<" ", "y", "?", "\n">>, <<"z">>, <<" ">>, <<"x", "?">>,
              <<"set_dac", "(", "0", ",", "1", ".", "5", ")">> }
      [] c.name = "hardware" ->
            { <<"set_dac", "(", "0", ",", " ", "-", "8", ")">>,
              <<"connect", "(", "A", ",", "B", ")">>,
              <<"connect", "(", "B", ",", " ", "A", ")">>,
              <<"disconnect", "(", "A", ",", "B", ")">>,
              <<"clear", "(", ")">>,
              <<"set_dac", "(", "TOP_RAIL", ",", " ", "1", ")">>,
              <<"gpio_set", "(", "7", ",", "1", ")">>,
              <<"z">> }
      [] c.name = "commands" ->
            { ConnectThenClear, ClearThenConnect, SetDacTooHigh, SetDacMalformed,
              GpioSetHigh, SetDacAndGpioLow }
      [] c.name = "default" ->
            { <<"?">>, <<"~">>, <<">", "dac_get", "(", "0", ")">>,
              <<">", "print_nets", "(", ")">> }
      [] c.name = "chunked" ->
            { <<"p">>, <<"q">>, <<"r">>, <<"s">> }
      [] c.name = "regex" ->
            { <<">", "dac_get", "(", "0", ")">>,
              <<"y", ">", "dac_get", "(", "1", ")", "z">>,
              <<"inv", "[">>, <<"~">>, <<"z">> }
      [] OTHER -> {}

V(neg, mag) == [Voltage |-> [neg |-> neg, mag |-> mag]]

\* The hardware state of DefaultConfig (a part of its channels and pins).
Jumperless0 ==
    [DACChannels |-> (<<"0">> :> V(FALSE, 3300)) @@ (<<"1">> :> V(FALSE, 0))
                     @@ (<<"TOP_RAIL">> :> V(FALSE, 3500)),
     ADCChannels |-> (<<"0">> :> V(FALSE, 0)),
     GPIOPins    |-> (<<"0">> :> [Value |-> 0, Direction |-> "input", Pull |-> "none"])
                     @@ (<<"1">> :> [Value |-> 0, Direction |-> "input", Pull |-> "none"]),
     Connections |-> <<>>]

\* The same with three connections configured.
JumperlessWired ==
    [Jumperless0 EXCEPT !.Connections = << [NodeA |-> <<"C">>, NodeB |-> <<"D">>],
                                           [NodeA |-> <<"B">>, NodeB |-> <<"A">>],
                                           [NodeA |-> <<"E">>, NodeB |-> <<"F">>] >>]


(***************************************************************************)
(* State                                                                   *)
(***************************************************************************)

VARIABLES
    impl,             \* which emulator package the engine is an instance of
    config,           \* Emulator.config: the mappings
    newErr,           \* the error New returned
    jumperless,       \* config.Jumperless: the hardware state
    requestCounters,  \* Emulator.requestCounters, keyed by mapping.Request
    requestBuffer,    \* the reader's accumulation buffer
    reader,           \* position of handleRequests
    handled,          \* history: the non-empty reads, in arrival order
    workers,          \* the sendResponse calls, by the ordinal of their read
    written,          \* history: the writes made to the pty, in order
    errors,           \* history: the errors sendResponse returned and the read errors logged
    netsOutput,       \* parseNets: the device output, as its lines
    nets,             \* parseNets: the nets returned
    parseErrs,        \* parseNets: the lines whose errors are in the aggregate
    parsed,           \* whether parseNets has returned
    configOutput,     \* parseConfig: the device output, as its lines
    sections,         \* parseConfig: the sections returned
    configErrs,       \* parseConfig: the lines whose errors are in the aggregate
    configParsed,     \* whether parseConfig has returned
    reply,            \* ExecPythonCommand: what ExecRawCommand returned
    execResult,       \* ExecPythonCommand: what it returned
    dacResult,        \* GetDAC: what it returned
    proxy,            \* the Proxy, its two forwarding goroutines and its Recorder
    port,             \* a JumperlessPort, its serial handles and the calls made on it
    recon,            \* the Jumperless object and the reconciliations made of it
    lifecycle,        \* position of the caller of Start and Stop
    ctxDone,          \* the handler's context is cancelled / shutdown is closed
    ptys,             \* the two pty files and the Emulator fields that hold them
    alias,            \* the path config names for the port: what is there
    startErr          \* the error Start returned

engineVars == <<impl, config, newErr, jumperless, requestCounters, requestBuffer,
                reader, handled, workers, written, errors>>

configVars == <<configOutput, sections, configErrs, configParsed>>

pythonVars == <<reply, execResult, dacResult>>

\* The variables of the controller's parsers and of the proxy.
clientVars == <<port, recon>>

parserVars == <<netsOutput, nets, parseErrs, parsed, configVars, pythonVars, proxy, clientVars>>

lifeVars == <<lifecycle, ctxDone, ptys, alias, startErr>>

vars == <<engineVars, parserVars, lifeVars>>

\* The variables an emulator step leaves alone, and their values in a run
\* of an emulator.
EngineFrame == UNCHANGED <<parserVars, lifeVars>>

\* A pty pair: each file is "none" (never opened), "open" or "closed"; the
\* set flags say whether the Emulator field holds the file.
Ptys(primary, secondary, isSet) ==
    [primary |-> primary, secondary |-> secondary, primarySet |-> isSet,
     secondarySet |-> isSet]

\* The emulator after a Start that returned nil, with the alias created.
LifeStarted ==
    /\ lifecycle = "started"
    /\ ctxDone = FALSE
    /\ ptys = Ptys("open", "open", TRUE)
    /\ alias = "ours"
    /\ startErr = "nil"

\* The emulator as New returns it.
LifeNew ==
    /\ lifecycle = "new"
    /\ ctxDone = FALSE
    /\ ptys = Ptys("none", "none", FALSE)
    /\ startErr = "nil"

\* The value of a result before the call that gives it.
NoResult == [err |-> "none", text |-> <<>>]

\* A forwarding goroutine of the proxy: where it is and the data it holds.
Forwarder(pc, data) == [pc |-> pc, data |-> data]

\* The proxy before Start.
ProxyIdle ==
    proxy = [life |-> "none", filename |-> "", ctxDone |-> FALSE,
             v2r |-> Forwarder("none", <<>>), r2v |-> Forwarder("none", <<>>),
             recorder |-> "none", requests |-> <<>>,
             currentResponse |-> [set |-> FALSE, key |-> <<>>],
             file |-> [written |-> FALSE, mappings |-> <<>>], writeErr |-> FALSE,
             reads |-> 0, toReal |-> <<>>, toVirtual |-> <<>>]

PythonIdle ==
    /\ reply = [err |-> FALSE, text |-> <<>>]
    /\ execResult = NoResult
    /\ dacResult = NoResult

ParserIdle ==
    /\ netsOutput = <<>>
    /\ nets = <<>>
    /\ parseErrs = <<>>
    /\ parsed = FALSE
    /\ configOutput = <<>>
    /\ sections = <<>>
    /\ configErrs = <<>>
    /\ configParsed = FALSE
    /\ PythonIdle
    /\ ProxyIdle

\* Callers of one JumperlessPort, and the calls they make in a run.
MaxCallers == 2
MaxPortCalls == 4

Callers == 1..MaxCallers

\* A call on the port: the method, where the caller is in it ("idle" once
\* it has returned, "lock" at portLock.Lock()) and what it returned.
PortCall(op, pc, ret) == [op |-> op, pc |-> pc, ret |-> ret]

\* The port as NewJumperlessPort returns it (its deferred Close has run):
\* p.port is nil (0), no handle is open.
PortIdle ==
    port = [port |-> 0, opened |-> 0, open |-> {}, made |-> 0, panicked |-> FALSE,
            calls |-> [c \in Callers |-> PortCall("none", "idle", "none")]]

\* No Jumperless object is reconciled.
ReconcilerIdle ==
    recon = [made |-> 0]

\* Reconciliations made in a run, and the generations the object goes through.
MaxReconciles == 3
MaxGeneration == 2

ClientIdle == PortIdle /\ ReconcilerIdle

\* Number of non-empty reads a run of the hardware-state emulator handles.
MaxReads == 2

\* New: both packages return the emulator and a nil error for every
\* configuration.
New(c) == "nil"

\* requestCounters[key], 0 for a key the map does not hold.
Counter(key) == IF key \in DOMAIN requestCounters THEN requestCounters[key] ELSE 0

\* A reader that never resets its buffer.
mNeverReset(buf, request) == buf

\* The end of a reader iteration with n > 0: requestBuffer.Reset() is inside
\* `if request != ""`.
resetBuffer(buf, request) == IF request = <<>> THEN buf ELSE <<>>

InitLegacy ==
    /\ impl = "jumperless-emulator"
    /\ config \in Configs
    /\ newErr = New(config)
    /\ jumperless = Jumperless0
    /\ requestCounters = <<>>
    /\ requestBuffer = <<>>
    /\ reader = "running"
    /\ handled = <<>>
    /\ workers = <<>>
    /\ written = <<>>
    /\ errors = <<>>
    /\ ParserIdle
    /\ ClientIdle
    /\ LifeStarted

(***************************************************************************)
(* The hardware-state emulator (emulator.go)                               *)
(***************************************************************************)

\* One iteration of the reader loop whose Read returned n > 0 bytes: the
\* data joins the buffer, the trimmed buffer is the request, and a matched
\* request is handed to a new goroutine (go e.sendResponse).
handleRequests(data) ==
    LET buf     == requestBuffer \o data
        request == TrimSpace(buf)
        m       == IF request = <<>> THEN 0 ELSE findResponse(config.Mappings, request)
        ord     == Len(handled) + 1
    IN  /\ impl = "jumperless-emulator"
        /\ reader = "running"
        /\ ptys.primary = "open"
        /\ Len(handled) < MaxReads
        /\ handled' = Append(handled, [data |-> data, request |-> request, m |-> m])
        /\ requestBuffer' = resetBuffer(buf, request)
        /\ workers' = IF m = 0 THEN workers
                      ELSE workers @@ (ord :> [pc |-> "counter", m |-> m, idx |-> -3,
                                               ld |-> 0, draw |-> -1, text |-> <<>>, append |-> FALSE,
                                               out |-> <<>>])
        /\ reader' = IF ctxDone THEN "exited" ELSE "running"
        /\ UNCHANGED <<impl, config, newErr, jumperless, requestCounters, written, errors>>
        /\ EngineFrame

\* sendResponse, first statement: e.requestCounters[requestKey]++ is a read
\* of the map and a write to it, with no lock held: this is the read.
sendResponseLoad(w) ==
    LET key == config.Mappings[workers[w].m].Request
    IN  /\ impl = "jumperless-emulator"
        /\ workers[w].pc = "counter"
        /\ workers' = [workers EXCEPT ![w].pc = "store", ![w].ld = Counter(key)]
        /\ UNCHANGED <<impl, config, newErr, jumperless, requestCounters, requestBuffer,
                       reader, handled, written, errors>>
        /\ EngineFrame

\* The write of e.requestCounters[requestKey]++.
sendResponseCount(w) ==
    LET key == config.Mappings[workers[w].m].Request
    IN  /\ impl = "jumperless-emulator"
        /\ workers[w].pc = "store"
        /\ requestCounters' = Put(requestCounters, key, workers[w].ld + 1)
        /\ workers' = [workers EXCEPT ![w].pc = "process", ![w].ld = 0]
        /\ UNCHANGED <<impl, config, newErr, jumperless, requestBuffer, reader,
                       handled, written, errors>>
        /\ EngineFrame

\* Two goroutines inside e.requestCounters[requestKey]++ at once: the Go
\* runtime may end the process (fatal error: concurrent map writes).
concurrentMapWrites(w, x) ==
    /\ impl = "jumperless-emulator"
    /\ w # x
    /\ workers[w].pc = "store"
    /\ workers[x].pc = "store"
    /\ reader' = "crashed"
    /\ workers' = [y \in DOMAIN workers |->
                      IF workers[y].pc = "done" THEN workers[y]
                      ELSE [workers[y] EXCEPT !.pc = "killed"]]
    /\ UNCHANGED <<impl, config, newErr, jumperless, requestCounters, requestBuffer,
                   handled, written, errors>>
    /\ EngineFrame

\* sendResponse after the delay: GetResponse with the counter as it is now,
\* the capture-group substitution, and processHardwareCommand up to the
\* scan of addConnection.
sendResponseProcess(w, draw) ==
    LET mapping == config.Mappings[workers[w].m]
        request == handled[w].request
        counter == Counter(mapping.Request)
        text0   == GetResponse(mapping, counter, draw)
        text1   == IF mapping.IsRegex /\ RegexCompiles(mapping.Request)
                   THEN ReplaceAllString(mapping.Request, request, text0)
                   ELSE text0
        j2      == applyGpioSet(applySetDac(jumperless, request), request)
        cm      == ConnectMatch(request)
    IN  /\ impl = "jumperless-emulator"
        /\ workers[w].pc = "process"
        /\ draw \in Draws(mapping)
        /\ jumperless' = j2
        /\ workers' = [workers EXCEPT ![w].pc = "finish",
                                      ![w].idx = GetResponseIndex(mapping, counter, draw),
                                      ![w].draw = draw,
                                      ![w].text = text1,
                                      ![w].append = cm.ok /\ ~isConnected(j2.Connections, cm.a, cm.b)]
        /\ UNCHANGED <<impl, config, newErr, requestCounters, requestBuffer, reader,
                       handled, written, errors>>
        /\ EngineFrame

\* The rest of processHardwareCommand (the append of addConnection, the
\* disconnect and clear blocks) and replacePlaceholders.
sendResponseFinish(w) ==
    LET mapping == config.Mappings[workers[w].m]
        request == handled[w].request
        cm      == ConnectMatch(request)
        j3      == IF workers[w].append
                   THEN [jumperless EXCEPT !.Connections = appendConnection(@, cm.a, cm.b)]
                   ELSE jumperless
        j5      == applyClear(applyDisconnect(j3, request), request)
        out     == Writes(mapping.ResponseConfig, replacePlaceholders(j5, workers[w].text))
    IN  /\ impl = "jumperless-emulator"
        /\ workers[w].pc = "finish"
        /\ jumperless' = j5
        /\ workers' = [workers EXCEPT ![w].pc = IF out = <<>> THEN "done" ELSE "write",
                                      ![w].text = <<>>,
                                      ![w].append = FALSE,
                                      ![w].out = out]
        /\ UNCHANGED <<impl, config, newErr, requestCounters, requestBuffer, reader,
                       handled, written, errors>>
        /\ EngineFrame

\* One e.ptmx.Write of sendFullResponse or sendChunkedResponse; on a closed
\* file the Write fails, which both log, and the delivery ends.
sendWrite(w) ==
    /\ impl = "jumperless-emulator"
    /\ workers[w].pc = "write"
    /\ written' = IF ptys.primary = "open"
                   THEN Append(written, [by |-> w, data |-> Head(workers[w].out)])
                   ELSE written
    /\ workers' = IF ptys.primary = "open"
                   THEN [workers EXCEPT ![w].out = Tail(@),
                                        ![w].pc = IF Len(workers[w].out) = 1 THEN "done"
                                                  ELSE "write"]
                   ELSE [workers EXCEPT ![w].out = <<>>, ![w].pc = "done"]
    /\ UNCHANGED <<impl, config, newErr, jumperless, requestCounters, requestBuffer,
                   reader, handled, errors>>
    /\ EngineFrame

NextLegacy ==
    \/ \E data \in ReadsOf(config) : handleRequests(data)
    \/ \E w \in DOMAIN workers : sendResponseLoad(w)
    \/ \E w \in DOMAIN workers : sendResponseCount(w)
    \/ \E w, x \in DOMAIN workers : concurrentMapWrites(w, x)
    \/ \E w \in DOMAIN workers : \E draw \in 0..3 : sendResponseProcess(w, draw)
    \/ \E w \in DOMAIN workers : sendResponseFinish(w)
    \/ \E w \in DOMAIN workers : sendWrite(w)

SpecLegacy == InitLegacy /\ [][NextLegacy]_vars

\* The hardware-state emulator serving command requests on a wired board.
InitCommands ==
    /\ impl = "jumperless-emulator"
    /\ config = CommandConfig
    /\ newErr = New(config)
    /\ jumperless = JumperlessWired
    /\ requestCounters = <<>>
    /\ requestBuffer = <<>>
    /\ reader = "running"
    /\ handled = <<>>
    /\ workers = <<>>
    /\ written = <<>>
    /\ errors = <<>>
    /\ ParserIdle
    /\ ClientIdle
    /\ LifeStarted

SpecCommands == InitCommands /\ [][NextLegacy]_vars

\* The hardware-state emulator with the configuration DefaultConfig returns.
InitDefault ==
    /\ impl = "jumperless-emulator"
    /\ config = DefaultConfig
    /\ newErr = New(config)
    /\ jumperless = Jumperless0
    /\ requestCounters = <<>>
    /\ requestBuffer = <<>>
    /\ reader = "running"
    /\ handled = <<>>
    /\ workers = <<>>
    /\ written = <<>>
    /\ errors = <<>>
    /\ ParserIdle
    /\ ClientIdle
    /\ LifeStarted

SpecDefault == InitDefault /\ [][NextLegacy]_vars


(***************************************************************************)
(* The chunk-based emulator (utils/internal/emulator)                      *)
(***************************************************************************)

Chunk(data) == [Data |-> data, Delay |-> 1, JitterMax |-> 0]

\* A mapping with two options (the second with a quoted chunk and a second
\* chunk), a pattern written with surrounding blanks and three chunks, and
\* a mapping with no responses.
ChunkConfig ==
    [name |-> "chunks",
     Mappings |-> <<
        [Request |-> <<"?">>,
         Responses |-> << [Chunks |-> <<Chunk(<<"a">>)>>],
                          [Chunks |-> <<Chunk(<<"\"", "b", "\\r", "\"">>), Chunk(<<"c">>)>>] >>],
        [Request |-> <<" ", "~", " ">>,
         Responses |-> << [Chunks |-> <<Chunk(<<"x", "x">>), Chunk(<<"\"", "y">>), Chunk(<<"z">>)>>] >>],
        [Request |-> <<"e">>, Responses |-> <<>>],
        [Request |-> <<"~">>, Responses |-> << [Chunks |-> <<Chunk(<<"w">>)>>] >>] >>]

Configs2 == {ChunkConfig}

Reads2 == { <<"?">>, <<" ", "?", "\n">>, <<"y", "?">>, <<"~">>, <<"e">>, <<" ">> }

\* Number of non-empty reads a run of the chunk-based emulator handles, and
\* the number of writes the pty fails or cuts short in a run.
MaxReads2 == 3
MaxFaults == 1

\* strconv.Unquote of a double-quoted literal: [ok, text].  The escapes are
\* single tokens ("\\r" is backslash-r); a lone backslash, a raw quote or a
\* raw newline inside the quotes is a syntax error.
UnescapeTok(t) ==
    CASE t = "\\r" -> "\r" [] t = "\\n" -> "\n" [] t = "\\t" -> "\t"
      [] t = "\\\"" -> "\"" [] OTHER -> t

Unquote(s) ==
    LET inner == SubSeq(s, 2, Len(s) - 1)
    IN  IF /\ Len(s) >= 2 /\ s[1] = "\"" /\ s[Len(s)] = "\""
           /\ \A k \in 1..Len(inner) : inner[k] \notin {"\"", "\n", "\\"}
        THEN [ok |-> TRUE, text |-> [k \in 1..Len(inner) |-> UnescapeTok(inner[k])]]
        ELSE [ok |-> FALSE, text |-> <<>>]

\* A sendResponse that writes the data as configured.
mChunkRaw(chunk) == chunk.Data

\* The bytes sendResponse hands to Write for a chunk: the unquoted data, or
\* the data as configured when it is no quoted literal.
ChunkText(chunk) == IF Unquote(chunk.Data).ok THEN Unquote(chunk.Data).text ELSE chunk.Data

\* The index sendResponse uses: the counter read before its increment.
requestIndex2(mapping, counter) ==
    IF Len(mapping.Responses) = 1 THEN 0 ELSE counter % Len(mapping.Responses)

\* A sendResponse that reports nothing for a mapping without responses.
mErrNil(mapping) == "nil"

\* What sendResponse returns before its chunk loop.
sendResponseErr(mapping) ==
    IF Len(mapping.Responses) = 0 THEN "ErrNoResponsesConfigured" ELSE "nil"

\* A chunk loop that goes on after a Write that failed.
mReturnAtLast(result, last) == last

\* Whether sendResponse returns after this pass of its chunk loop: at the
\* first Write that fails or comes short, and after the last chunk.
chunkLoopReturns(result, last) == result # "ok" \/ last

Init2 ==
    /\ impl = "internal/emulator"
    /\ config \in Configs2
    /\ newErr = New(config)
    /\ jumperless = Jumperless0
    /\ requestCounters = <<>>
    /\ requestBuffer = <<>>
    /\ reader = "running"
    /\ handled = <<>>
    /\ workers = <<>>
    /\ written = <<>>
    /\ errors = <<>>
    /\ ParserIdle
    /\ ClientIdle
    /\ LifeStarted

\* One iteration of the reader loop whose Read returned n > 0 bytes.  A
\* matched request enters sendResponse on the reader's own goroutine: the
\* option is chosen and the counter incremented; the reader goes on to the
\* chunk loop when the option has chunks.
handleRequests2(data) ==
    LET buf     == requestBuffer \o data
        request == TrimSpace(buf)
        m       == IF request = <<>> THEN 0 ELSE findResponse2(config.Mappings, request)
        ord     == Len(handled) + 1
        mapping == config.Mappings[m]
        key     == mapping.Request
        none    == m # 0 /\ Len(mapping.Responses) = 0
        idx     == requestIndex2(mapping, Counter(key))
        chunks  == mapping.Responses[idx + 1].Chunks
        busy    == m # 0 /\ ~none /\ chunks # <<>>
    IN  /\ impl = "internal/emulator"
        /\ reader = "running"
        /\ ptys.primary = "open"
        /\ Len(handled) < MaxReads2
        /\ handled' = Append(handled, [data |-> data, request |-> request, m |-> m])
        /\ requestBuffer' = IF busy THEN buf ELSE resetBuffer(buf, request)
        /\ requestCounters' = IF m # 0 /\ ~none
                              THEN Put(requestCounters, key, Counter(key) + 1)
                              ELSE requestCounters
        /\ errors' = IF m # 0 /\ sendResponseErr(mapping) # "nil"
                     THEN Append(errors, [by |-> ord, err |-> sendResponseErr(mapping)])
                     ELSE errors
        /\ workers' = IF m = 0 THEN workers
                      ELSE IF none
                      THEN workers @@ (ord :> [pc |-> "done", m |-> m, idx |-> -2, out |-> <<>>])
                      ELSE workers @@ (ord :> [pc |-> IF busy THEN "write" ELSE "done",
                                               m |-> m, idx |-> idx, out |-> chunks])
        /\ reader' = IF busy THEN "sending" ELSE IF ctxDone THEN "exited" ELSE "running"
        /\ UNCHANGED <<impl, config, newErr, jumperless, written>>
        /\ EngineFrame

\* One pass of sendResponse's chunk loop: the delay, the unquoting and the
\* Write, which takes all n bytes, fails, or takes fewer than n.  sendResponse
\* returns after the last chunk or at the first failure, and the reader
\* resets its buffer.
sendResponse2(w, result, n) ==
    LET text == ChunkText(Head(workers[w].out))
        last == Len(workers[w].out) = 1
        faults == Cardinality({k \in 1..Len(written) : written[k].result # "ok"})
        return == chunkLoopReturns(result, last)
    IN  /\ impl = "internal/emulator"
        /\ reader = "sending"
        /\ workers[w].pc = "write"
        /\ result \in {"ok", "error", "short"}
        /\ IF ptys.primary = "open" THEN result # "ok" => faults < MaxFaults
           ELSE result = "error"
        /\ n = IF result = "ok" THEN Len(text) ELSE IF result = "error" THEN 0 ELSE n
        /\ n \in 0..Len(text)
        /\ result = "short" => n < Len(text)
        /\ written' = Append(written, [by |-> w, data |-> text, n |-> n, result |-> result,
                                        cancelled |-> ctxDone])
        /\ errors' = IF result = "ok" THEN errors
                     ELSE Append(errors, [by |-> w,
                                          err |-> IF result = "short" THEN "ErrPartialWrite"
                                                  ELSE "write failed"])
        /\ workers' = [workers EXCEPT ![w].out = IF return THEN <<>> ELSE Tail(@),
                                      ![w].pc = IF return THEN "done" ELSE "write"]
        /\ reader' = IF ~return THEN "sending" ELSE IF ctxDone THEN "exited" ELSE "running"
        /\ requestBuffer' = IF return THEN <<>> ELSE requestBuffer
        /\ UNCHANGED <<impl, config, newErr, jumperless, requestCounters, handled>>
        /\ EngineFrame

Next2 ==
    \/ \E data \in Reads2 : handleRequests2(data)
    \/ \E w \in DOMAIN workers : \E result \in {"ok", "error", "short"} :
          \E n \in 0..2 : sendResponse2(w, result, n)

Spec2 == Init2 /\ [][Next2]_vars


(***************************************************************************)
(* The device-output parser (internal/controller/local): parseNets and     *)
(* parseNetLine.  A line is a text; "\t" is a tab, "<BS>" a backspace and  *)
(* " V" the blank and the letter that end a voltage.                       *)
(***************************************************************************)

namedColors == <<"red", "orange", "amber", "yellow", "chartreuse", "green", "seafoam",
                 "cyan", "blue", "royal blue", "indigo", "violet", "purple", "pink",
                 "magenta", "white", "black", "grey">>

Letters == {"f", "h", "A", "B", "C", "x"}

IsBackspace(t) == t = "<BS>"

\* strconv.ParseInt(s, 10, 32): [ok, val].
ParseInt32(s) ==
    LET body == IF At(s, 1) \in {"+", "-"} THEN SubSeq(s, 2, Len(s)) ELSE s
    IN  IF body # <<>> /\ \A k \in 1..Len(body) : IsDigit(body[k])
        THEN [ok |-> TRUE, val |-> IF At(s, 1) = "-" THEN 0 - NumVal(body) ELSE NumVal(body)]
        ELSE [ok |-> FALSE, val |-> 0]

\* strings.Cut(s, sep) for a one-token separator: [found, before, after].
Cut(s, sep) ==
    LET I == {k \in 1..Len(s) : s[k] = sep}
    IN  IF I = {} THEN [found |-> FALSE, before |-> s, after |-> <<>>]
        ELSE [found |-> TRUE, before |-> SubSeq(s, 1, Min(I) - 1),
              after |-> SubSeq(s, Min(I) + 1, Len(s))]

\* The node list: split on commas, each token trimmed, empty ones dropped.
RECURSIVE SplitNodes(_)
SplitNodes(nodesPart) ==
    LET c    == Cut(nodesPart, ",")
        node == TrimSpace(c.before)
        rest == IF c.found THEN SplitNodes(c.after) ELSE <<>>
    IN  IF node = <<>> THEN rest ELSE <<node>> \o rest

NoNet == [Index |-> 0, Name |-> <<>>, Voltage |-> <<>>, Color |-> "", Nodes |-> <<>>,
          Data |-> [set |-> FALSE, text |-> <<>>]]

\* The color-mode branch of parseNetLine on the third field: [ok, net].
ColorRest(net, field) ==
    LET r1    == SubSeq(field, RunEnd(field, 1, IsBackspace) + 1, Len(field))
        r2    == TrimSpace(IF At(r1, 1) = "*" THEN Tail(r1) ELSE r1)
        I     == {i \in 1..Len(namedColors) : At(r2, 1) = namedColors[i]}
        r3    == TrimSpace(Tail(r2))
        r4    == IF At(r3, 1) = "-" /\ At(r3, 2) = " " /\ At(r3, 3) \in Letters
                 THEN TrimSpace(SubSeq(r3, 4, Len(r3))) ELSE r3
        c     == Cut(r4, "\t")
    IN  IF I = {} THEN [ok |-> FALSE, dup |-> FALSE, net |-> NoNet]
        ELSE [ok |-> TRUE, dup |-> FALSE,
              net |-> [net EXCEPT !.Color = namedColors[Min(I)],
                                  !.Nodes = SplitNodes(TrimSpace(c.before)),
                                  !.Data = IF c.found
                                           THEN [set |-> TRUE, text |-> TrimSpace(c.after)]
                                           ELSE [set |-> FALSE, text |-> <<>>]]]

\* A voltage branch that takes a third field without " V".
mVoltageNoCheck(net, field) == [ok |-> TRUE, dup |-> FALSE, net |-> net]

\* The voltage-mode branch of parseNetLine on the third field.
VoltageRest(net, field) ==
    LET c == Cut(field, " V")
    IN  IF ~c.found THEN [ok |-> FALSE, dup |-> FALSE, net |-> NoNet]
        ELSE [ok |-> TRUE, dup |-> FALSE,
              net |-> [net EXCEPT !.Voltage = TrimSpace(c.before) \o <<"V">>,
                                  !.Nodes = SplitNodes(TrimSpace(c.after))]]

\* parseNetLine: [ok, dup, net]; dup is ErrParseLineDuplicateIndex.
parseNetLine(netLine, hasColor, currentIndex) ==
    LET tabs   == {k \in 1..Len(netLine) : netLine[k] = "\t"}
        t1     == Min(tabs)
        t2     == Min(tabs \ {t1})
        index  == ParseInt32(TrimSpace(SubSeq(netLine, 1, t1 - 1)))
        net    == [NoNet EXCEPT !.Index = index.val,
                                !.Name = TrimSpace(SubSeq(netLine, t1 + 1, t2 - 1))]
        rest   == TrimSpace(SubSeq(netLine, t2 + 1, Len(netLine)))
    IN  IF Cardinality(tabs) < 2 THEN [ok |-> FALSE, dup |-> FALSE, net |-> NoNet]
        ELSE IF ~index.ok THEN [ok |-> FALSE, dup |-> FALSE, net |-> NoNet]
        ELSE IF index.val <= currentIndex THEN [ok |-> FALSE, dup |-> TRUE, net |-> NoNet]
        ELSE IF hasColor THEN ColorRest(net, rest)
        ELSE VoltageRest(net, rest)

\* The value of parseNets's currentIndex after a net has been yielded: the
\* loop never assigns the variable.
CurrentIndexAfter(currentIndex, net) == currentIndex

\* The loop of parseNets from line k on.
RECURSIVE parseNetsFrom(_, _, _, _, _)
parseNetsFrom(lines, k, hasColor, currentIndex, acc) ==
    IF k > Len(lines) THEN acc
    ELSE LET trimmed == TrimSpace(lines[k])
             r       == parseNetLine(trimmed, hasColor, currentIndex)
         IN  IF trimmed = <<>> THEN parseNetsFrom(lines, k + 1, hasColor, currentIndex, acc)
             ELSE IF trimmed[1] = "Index"
             THEN parseNetsFrom(lines, k + 1, \E i \in 1..Len(trimmed) : trimmed[i] = "Color",
                                currentIndex, acc)
             ELSE IF r.ok
             THEN parseNetsFrom(lines, k + 1, hasColor, CurrentIndexAfter(currentIndex, r.net),
                                [acc EXCEPT !.nets = Append(@, r.net)])
             ELSE IF r.dup THEN parseNetsFrom(lines, k + 1, hasColor, currentIndex, acc)
             ELSE parseNetsFrom(lines, k + 1, hasColor, currentIndex,
                                [acc EXCEPT !.errs = Append(@, k)])

parseNets(lines) == parseNetsFrom(lines, 1, FALSE, 0, [nets |-> <<>>, errs |-> <<>>])

\* Lines of a nets listing: a voltage header and a color header, records
\* with indices 1, 2 and 0, the same record again, and malformed records.
NetLines ==
    { <<"Index", "\t", "Name", "\t", "Voltage">>,
      <<"Index", "\t", "Name", "\t", "Color">>,
      <<"1", "\t", "GND", "\t", "0", " V", " ", "GND", ",", "9">>,
      <<"\r", "2", "\t", "Net", "\t", "1", " V", " ", "A">>,
      <<"0", "\t", "Net", "\t", "0", " V", " ", "B">>,
      <<"3", "\t", "Net", "\t", "<BS>", "*", " ", "red", " ", "-", " ", "f", " ", "A", ",", "B",
        "\t", " ", "x">>,
      <<"x", "\t", "Net", "\t", "0", " V", " ", "A">>,
      <<"1", "\t", "GND">> }

\* Number of lines of a parsed listing.
MaxLines == 3

RECURSIVE SeqsUpTo(_, _)
SeqsUpTo(S, n) ==
    IF n = 0 THEN {<<>>}
    ELSE LET shorter == SeqsUpTo(S, n - 1)
         IN  shorter \cup {Append(q, x) : q \in {p \in shorter : Len(p) = n - 1}, x \in S}

InitParser ==
    /\ impl = "parser"
    /\ config = [name |-> "none", Mappings |-> <<>>]
    /\ newErr = "nil"
    /\ jumperless = Jumperless0
    /\ requestCounters = <<>>
    /\ requestBuffer = <<>>
    /\ reader = "stopped"
    /\ handled = <<>>
    /\ workers = <<>>
    /\ written = <<>>
    /\ errors = <<>>
    /\ netsOutput \in SeqsUpTo(NetLines, MaxLines)
    /\ nets = <<>>
    /\ parseErrs = <<>>
    /\ parsed = FALSE
    /\ configOutput = <<>>
    /\ sections = <<>>
    /\ configErrs = <<>>
    /\ configParsed = FALSE
    /\ PythonIdle
    /\ ProxyIdle
    /\ ClientIdle
    /\ LifeNew
    /\ alias = "none"

\* A call of parseNets on the device output.
ParseNetsCall ==
    /\ impl = "parser"
    /\ ~parsed
    /\ nets' = parseNets(netsOutput).nets
    /\ parseErrs' = parseNets(netsOutput).errs
    /\ parsed' = TRUE
    /\ UNCHANGED <<netsOutput, configVars, pythonVars, proxy, clientVars, engineVars, lifeVars>>

NextParser == ParseNetsCall

SpecParser == InitParser /\ [][NextParser]_vars


(***************************************************************************)
(* parseConfig of the same package.  "<BT>" is the backtick; it and "["    *)
(* are tokens of their own, as are "]", "=" and ";".                       *)
(***************************************************************************)

\* strings.TrimSuffix(s, ";")
TrimSuffix(s) == IF s # <<>> /\ s[Len(s)] = ";" THEN SubSeq(s, 1, Len(s) - 1) ELSE s

\* A value trimmed once more after its semicolon is gone.
mTrimAgain(value) == TrimSpace(TrimSuffix(TrimSpace(value)))

\* The value parseConfig stores for the text after the "=".
ConfigValue(value) == TrimSuffix(TrimSpace(value))

\* A pass that makes the section only once the line has shown its "=".
mSectionAfterEquals(acc, line, k) ==
    LET trimmed == TrimSpace(line)
        c       == Cut(SubSeq(trimmed, 3, Len(trimmed)), "]")
        section == c.before
        made    == IF section \in DOMAIN acc.config THEN acc.config
                   ELSE Put(acc.config, section, <<>>)
        e       == Cut(c.after, "=")
    IN  IF trimmed = <<>> THEN acc
        ELSE IF ~(At(trimmed, 1) = "<BT>" /\ At(trimmed, 2) = "[") THEN acc
        ELSE IF ~c.found \/ ~e.found THEN [acc EXCEPT !.errs = Append(@, k)]
        ELSE [config |-> Put(made, section,
                             Put(made[section], TrimSpace(e.before), ConfigValue(e.after))),
              errs |-> acc.errs]

\* A parseConfig that keeps the value a key already has.
mFirstSeenWins(acc, line, k) ==
    LET trimmed == TrimSpace(line)
        c       == Cut(SubSeq(trimmed, 3, Len(trimmed)), "]")
        section == c.before
        made    == IF section \in DOMAIN acc.config THEN acc.config
                   ELSE Put(acc.config, section, <<>>)
        e       == Cut(c.after, "=")
        key     == TrimSpace(e.before)
    IN  IF trimmed = <<>> THEN acc
        ELSE IF ~(At(trimmed, 1) = "<BT>" /\ At(trimmed, 2) = "[") THEN acc
        ELSE IF ~c.found THEN [acc EXCEPT !.errs = Append(@, k)]
        ELSE IF ~e.found THEN [config |-> made, errs |-> Append(acc.errs, k)]
        ELSE IF key \in DOMAIN made[section] THEN [config |-> made, errs |-> acc.errs]
        ELSE [config |-> Put(made, section, Put(made[section], key, ConfigValue(e.after))),
              errs |-> acc.errs]

\* One pass of the loop of parseConfig, on line k: the map and the lines
\* with errors after it.
parseConfigLine(acc, line, k) ==
    LET trimmed == TrimSpace(line)
        c       == Cut(SubSeq(trimmed, 3, Len(trimmed)), "]")
        section == c.before
        made    == IF section \in DOMAIN acc.config THEN acc.config
                   ELSE Put(acc.config, section, <<>>)
        e       == Cut(c.after, "=")
    IN  IF trimmed = <<>> THEN acc
        ELSE IF ~(At(trimmed, 1) = "<BT>" /\ At(trimmed, 2) = "[") THEN acc
        ELSE IF ~c.found THEN [acc EXCEPT !.errs = Append(@, k)]
        ELSE IF ~e.found THEN [config |-> made, errs |-> Append(acc.errs, k)]
        ELSE [config |-> Put(made, section,
                             Put(made[section], TrimSpace(e.before), ConfigValue(e.after))),
              errs |-> acc.errs]

RECURSIVE parseConfigFrom(_, _, _)
parseConfigFrom(lines, k, acc) ==
    IF k > Len(lines) THEN acc
    ELSE parseConfigFrom(lines, k + 1, parseConfigLine(acc, lines[k], k))

\* The map and the errors parseConfig has after its loop over the lines.
parseConfigMap(lines) == parseConfigFrom(lines, 1, [config |-> <<>>, errs |-> <<>>])

\* The orders in which a range over a Go map can yield the keys S.
Orders(S) == {f \in [1..Cardinality(S) -> S] : \A x \in S : \E i \in DOMAIN f : f[i] = x}

\* The section list built from the map with the sections in the order so and
\* the keys of each section in the order eo gives for it.
SectionList(cfg, so, eo) ==
    [i \in DOMAIN so |->
        [Name |-> so[i],
         Entries |-> [j \in DOMAIN eo[so[i]] |->
                         [Key |-> eo[so[i]][j], Value |-> cfg[so[i]][eo[so[i]][j]]]]]]

\* Lines of a config listing: entries with a blank or nothing before the
\* semicolon, with two semicolons and with two "=", lines without "]" and
\* without "=", and lines that are no config lines.
ConfigLines ==
    { <<"<BT>", "[", "test", "]", " ", "key", " ", "=", " ", "value", " ", ";">>,
      <<" ", "<BT>", "[", "test", "]", "key", "=", "value", ";", "\r">>,
      <<"<BT>", "[", "dacs", "]", "k", "=", "1", ";", ";">>,
      <<"<BT>", "[", "dacs", "]", "a", "=", "b", "=", "c">>,
      <<"<BT>", "[", "hardware", " ", "v", "=", "1", ";">>,
      <<"<BT>", "[", "config", "]", " ", "v", " ", "1", ";">>,
      <<"<BT>", "x", "[", "a", "]", "k", "=", "1">>,
      <<"END", " ", "[", "a", "]", "=", "1">> }

\* Number of lines of a parsed config listing.
MaxConfigLines == 3

InitConfig ==
    /\ impl = "parser"
    /\ config = [name |-> "none", Mappings |-> <<>>]
    /\ newErr = "nil"
    /\ jumperless = Jumperless0
    /\ requestCounters = <<>>
    /\ requestBuffer = <<>>
    /\ reader = "stopped"
    /\ handled = <<>>
    /\ workers = <<>>
    /\ written = <<>>
    /\ errors = <<>>
    /\ netsOutput = <<>>
    /\ nets = <<>>
    /\ parseErrs = <<>>
    /\ parsed = FALSE
    /\ configOutput \in SeqsUpTo(ConfigLines, MaxConfigLines)
    /\ sections = <<>>
    /\ configErrs = <<>>
    /\ configParsed = FALSE
    /\ PythonIdle
    /\ ProxyIdle
    /\ ClientIdle
    /\ LifeNew
    /\ alias = "none"

\* A call of parseConfig on the device output.
ParseConfigCall ==
    LET r == parseConfigMap(configOutput)
    IN  /\ impl = "parser"
        /\ ~configParsed
        /\ \E so \in Orders(DOMAIN r.config) :
              \E eo \in {f \in [DOMAIN r.config ->
                                    UNION {Orders(DOMAIN r.config[x]) : x \in DOMAIN r.config}] :
                              \A x \in DOMAIN r.config : f[x] \in Orders(DOMAIN r.config[x])} :
                 sections' = SectionList(r.config, so, eo)
        /\ configErrs' = r.errs
        /\ configParsed' = TRUE
        /\ UNCHANGED <<configOutput, netsOutput, nets, parseErrs, parsed, pythonVars, proxy,
                       clientVars, engineVars, lifeVars>>

NextConfig == ParseConfigCall

SpecConfig == InitConfig /\ [][NextConfig]_vars


(***************************************************************************)
(* ExecPythonCommand (Jumperless) and GetDAC.  A reply is a text in which  *)
(* "\r" followed by "\n" separates the raw lines, "<ANSI>" is an escape    *)
(* sequence and "Python>" the prompt.                                      *)
(***************************************************************************)

\* ansi.Strip
AnsiStrip(s) == SelectSeq(s, LAMBDA t : t # "<ANSI>")

\* strings.Split(s, "\r\n"): the raw lines.
RECURSIVE SplitCRLF(_)
SplitCRLF(s) ==
    LET I == {i \in 1..(Len(s) - 1) : s[i] = "\r" /\ s[i + 1] = "\n"}
    IN  IF I = {} THEN <<s>>
        ELSE <<SubSeq(s, 1, Min(I) - 1)>> \o SplitCRLF(SubSeq(s, Min(I) + 2, Len(s)))

\* A filter that lets the prompt lines through.
mKeepPrompt(resultLines) ==
    SelectSeq([i \in DOMAIN resultLines |-> TrimSpace(resultLines[i])],
              LAMBDA l : l # <<>>)

\* The lines ExecPythonCommand keeps: trimmed, not empty, not a prompt.
Filtered(resultLines) ==
    SelectSeq([i \in DOMAIN resultLines |-> TrimSpace(resultLines[i])],
              LAMBDA l : l # <<>> /\ l[1] # "Python>")

\* strings.Join(lines, "\n")
RECURSIVE Join(_)
Join(lines) ==
    IF lines = <<>> THEN <<>>
    ELSE IF Len(lines) = 1 THEN lines[1]
    ELSE lines[1] \o <<"\n">> \o Join(Tail(lines))

\* ExecPythonCommand on what ExecRawCommand returned: [err, text].
ExecPythonCommand(raw) ==
    LET resultLines == SplitCRLF(AnsiStrip(raw.text))
        filtered    == Filtered(resultLines)
    IN  IF raw.err THEN [err |-> "failed to execute command", text |-> <<>>]
        ELSE IF Len(resultLines) < 3 THEN [err |-> "ErrUnexpectedCommandOutput", text |-> <<>>]
        ELSE IF Len(filtered) = 0 THEN [err |-> "ErrUnexpectedCommandOutput", text |-> <<>>]
        ELSE IF Len(filtered) = 1 THEN [err |-> "nil", text |-> filtered[1]]
        ELSE [err |-> "nil", text |-> Join(filtered)]

\* strings.HasSuffix(s, "V"): " V" is the blank and the letter.
HasSuffixV(s) == s # <<>> /\ s[Len(s)] \in {"V", " V"}

\* GetDAC on what ExecRawCommand returned.
GetDAC(raw) ==
    LET r      == ExecPythonCommand(raw)
        result == TrimSpace(r.text)
    IN  IF r.err # "nil" THEN [err |-> "unable to get DAC voltage", text |-> <<>>]
        ELSE [err |-> "nil", text |-> IF HasSuffixV(result) THEN result ELSE result \o <<"V">>]

\* Raw lines of a reply: the echoed command behind the prompt, also behind
\* an escape sequence, a voltage with and without its V, an empty and a
\* blank line, a line holding a bare line feed, and a padded word.
ReplyLines ==
    { <<"Python>", " ", ">", "dac_get", "(", "0", ")">>,
      <<" ", "<ANSI>", "Python>", "<ANSI>">>,
      <<"3", ".", "3", "V">>,
      <<"3", ".", "3">>,
      <<>>,
      <<"a", "\n", "b", "\r">>,
      <<" ", "x", " ">> }

\* Number of raw lines of a reply.
MaxReplyLines == 4

\* The replies of up to n raw lines.
RECURSIVE Replies(_)
Replies(n) ==
    IF n = 1 THEN ReplyLines
    ELSE Replies(n - 1) \cup
         {r \o <<"\r", "\n">> \o l : r \in Replies(n - 1), l \in ReplyLines}

InitPython ==
    /\ impl = "parser"
    /\ config = [name |-> "none", Mappings |-> <<>>]
    /\ newErr = "nil"
    /\ jumperless = Jumperless0
    /\ requestCounters = <<>>
    /\ requestBuffer = <<>>
    /\ reader = "stopped"
    /\ handled = <<>>
    /\ workers = <<>>
    /\ written = <<>>
    /\ errors = <<>>
    /\ netsOutput = <<>>
    /\ nets = <<>>
    /\ parseErrs = <<>>
    /\ parsed = FALSE
    /\ configOutput = <<>>
    /\ sections = <<>>
    /\ configErrs = <<>>
    /\ configParsed = FALSE
    /\ reply \in [err : BOOLEAN, text : Replies(MaxReplyLines)]
    /\ execResult = NoResult
    /\ dacResult = NoResult
    /\ ProxyIdle
    /\ ClientIdle
    /\ LifeNew
    /\ alias = "none"

\* A call of ExecPythonCommand.
ExecPythonCommandCall ==
    /\ impl = "parser"
    /\ execResult = NoResult
    /\ execResult' = ExecPythonCommand(reply)
    /\ UNCHANGED <<reply, dacResult, netsOutput, nets, parseErrs, parsed, configVars, proxy,
                   clientVars, engineVars, lifeVars>>

\* A call of GetDAC.
GetDACCall ==
    /\ impl = "parser"
    /\ dacResult = NoResult
    /\ dacResult' = GetDAC(reply)
    /\ UNCHANGED <<reply, execResult, netsOutput, nets, parseErrs, parsed, configVars, proxy,
                   clientVars, engineVars, lifeVars>>

NextPython == ExecPythonCommandCall \/ GetDACCall

SpecPython == InitPython /\ [][NextPython]_vars


(***************************************************************************)
(* The recording proxy (utils/proxy): Proxy.Start has returned nil with    *)
(* the recorder and the two forwarding goroutines running.                 *)
(***************************************************************************)

\* Number of non-empty reads the two forwarding goroutines make in a run.
MaxProxyReads == 3

\* strconv.Quote
Quote(data) == <<"\"">> \o data \o <<"\"">>

InitProxy ==
    /\ impl = "proxy"
    /\ config = [name |-> "none", Mappings |-> <<>>]
    /\ newErr = "nil"
    /\ jumperless = Jumperless0
    /\ requestCounters = <<>>
    /\ requestBuffer = <<>>
    /\ reader = "stopped"
    /\ handled = <<>>
    /\ workers = <<>>
    /\ written = <<>>
    /\ errors = <<>>
    /\ netsOutput = <<>>
    /\ nets = <<>>
    /\ parseErrs = <<>>
    /\ parsed = FALSE
    /\ configOutput = <<>>
    /\ sections = <<>>
    /\ configErrs = <<>>
    /\ configParsed = FALSE
    /\ PythonIdle
    /\ ClientIdle
    /\ \E filename \in {"", "recording.yaml"} :
          proxy = [life |-> "running", filename |-> filename, ctxDone |-> FALSE,
                   v2r |-> Forwarder("select", <<>>), r2v |-> Forwarder("select", <<>>),
                   recorder |-> "loop", requests |-> <<>>,
                   currentResponse |-> [set |-> FALSE, key |-> <<>>],
                   file |-> [written |-> FALSE, mappings |-> <<>>], writeErr |-> FALSE,
                   reads |-> 0, toReal |-> <<>>, toVirtual |-> <<>>]
    /\ LifeNew
    /\ alias = "none"

ProxyFrame == UNCHANGED <<engineVars, netsOutput, nets, parseErrs, parsed, configVars,
                          pythonVars, clientVars, lifeVars>>

\* proxyVirtualToReal: the select finds the context live and the Read
\* returns n > 0 bytes; the goroutine goes to RecordRequest.
proxyVirtualToRealRead(data) ==
    /\ impl = "proxy"
    /\ proxy.v2r.pc = "select"
    /\ ~proxy.ctxDone
    /\ proxy.reads < MaxProxyReads
    /\ proxy' = [proxy EXCEPT !.v2r = Forwarder("record", data), !.reads = @ + 1]
    /\ ProxyFrame

\* proxyRealToVirtual: the same for the real port.
proxyRealToVirtualRead(data) ==
    /\ impl = "proxy"
    /\ proxy.r2v.pc = "select"
    /\ ~proxy.ctxDone
    /\ proxy.reads < MaxProxyReads
    /\ proxy' = [proxy EXCEPT !.r2v = Forwarder("record", data), !.reads = @ + 1]
    /\ ProxyFrame

\* The select of a forwarding goroutine finds its context done.
proxyVirtualToRealExit ==
    /\ impl = "proxy"
    /\ proxy.v2r.pc = "select"
    /\ proxy.ctxDone
    /\ proxy' = [proxy EXCEPT !.v2r = Forwarder("exited", <<>>)]
    /\ ProxyFrame

proxyRealToVirtualExit ==
    /\ impl = "proxy"
    /\ proxy.r2v.pc = "select"
    /\ proxy.ctxDone
    /\ proxy' = [proxy EXCEPT !.r2v = Forwarder("exited", <<>>)]
    /\ ProxyFrame

\* RecordRequest meets the reqChan case of recordLoop: the request gets a
\* new, empty response option, which becomes the current one.
recordLoopRequest ==
    LET reqStr == proxy.v2r.data
        old    == IF reqStr \in DOMAIN proxy.requests THEN proxy.requests[reqStr] ELSE <<>>
    IN  /\ impl = "proxy"
        /\ proxy.v2r.pc = "record"
        /\ proxy.recorder = "loop"
        /\ proxy' = [proxy EXCEPT !.requests = Put(@, reqStr, Append(old, <<>>)),
                                  !.currentResponse = [set |-> TRUE, key |-> reqStr],
                                  !.v2r = Forwarder("forward", reqStr)]
        /\ ProxyFrame

\* RecordResponse meets the resChan case: the chunk is appended to the
\* current response option, or dropped with a warning when there is none.
recordLoopResponse ==
    LET res == proxy.r2v.data
        key == proxy.currentResponse.key
        n   == Len(proxy.requests[key])
    IN  /\ impl = "proxy"
        /\ proxy.r2v.pc = "record"
        /\ proxy.recorder = "loop"
        /\ proxy' = [proxy EXCEPT
                        !.requests = IF proxy.currentResponse.set
                                     THEN [@ EXCEPT ![key][n] = Append(@, Quote(res))]
                                     ELSE @,
                        !.r2v = Forwarder("forward", res)]
        /\ ProxyFrame

\* The Write to the other side, after which the goroutine is at its select.
proxyVirtualToRealWrite ==
    /\ impl = "proxy"
    /\ proxy.v2r.pc = "forward"
    /\ proxy' = [proxy EXCEPT !.toReal = Append(@, proxy.v2r.data),
                              !.v2r = Forwarder("select", <<>>)]
    /\ ProxyFrame

proxyRealToVirtualWrite ==
    /\ impl = "proxy"
    /\ proxy.r2v.pc = "forward"
    /\ proxy' = [proxy EXCEPT !.toVirtual = Append(@, proxy.r2v.data),
                              !.r2v = Forwarder("select", <<>>)]
    /\ ProxyFrame

\* The ctx.Done case of recordLoop: writeRecording, whose os.WriteFile
\* succeeds or not, and return.
recordLoopDone(ok) ==
    /\ impl = "proxy"
    /\ proxy.recorder = "loop"
    /\ proxy.ctxDone
    /\ proxy.filename = "" => ok
    /\ proxy' = [proxy EXCEPT
                    !.recorder = "exited",
                    !.writeErr = ~ok,
                    !.file = IF ok /\ proxy.filename # ""
                             THEN [written |-> TRUE, mappings |-> proxy.requests] ELSE @]
    /\ ProxyFrame

\* Proxy.Stop up to p.wg.Wait(): the three cancel calls.
ProxyStopCancel ==
    /\ impl = "proxy"
    /\ proxy.life = "running"
    /\ proxy' = [proxy EXCEPT !.life = "cancelled", !.ctxDone = TRUE]
    /\ ProxyFrame

\* p.wg.Wait() returns once the two forwarding goroutines have; tryCleanup
\* and return nil.
ProxyStopReturn ==
    /\ impl = "proxy"
    /\ proxy.life = "cancelled"
    /\ proxy.v2r.pc = "exited"
    /\ proxy.r2v.pc = "exited"
    /\ proxy' = [proxy EXCEPT !.life = "returned"]
    /\ ProxyFrame

\* main returns after Stop and the process ends, whatever the recorder's
\* goroutine was doing.
proxyMainReturn ==
    /\ impl = "proxy"
    /\ proxy.life = "returned"
    /\ proxy' = [proxy EXCEPT !.life = "exited",
                              !.recorder = IF @ = "loop" THEN "killed" ELSE @]
    /\ ProxyFrame

NextProxy ==
    \/ \E data \in {<<"a">>, <<"b">>} : proxyVirtualToRealRead(data)
    \/ \E data \in {<<"1">>, <<"2">>} : proxyRealToVirtualRead(data)
    \/ proxyVirtualToRealExit
    \/ proxyRealToVirtualExit
    \/ recordLoopRequest
    \/ recordLoopResponse
    \/ proxyVirtualToRealWrite
    \/ proxyRealToVirtualWrite
    \/ \E ok \in BOOLEAN : recordLoopDone(ok)
    \/ ProxyStopCancel
    \/ ProxyStopReturn
    \/ proxyMainReturn

SpecProxy == InitProxy /\ [][NextProxy]_vars


(***************************************************************************)
(* Start and Stop of the two emulators.  The port path of the              *)
(* configuration is "unset" (empty), or names nothing ("none"), a file     *)
(* left by someone else ("stale") or the symlink Start made ("ours").      *)
(***************************************************************************)

\* tryCleanup: Close on the files the Emulator fields hold, os.Remove on
\* the configured path; removed says whether that os.Remove succeeds.
tryCleanup(p, a, removed) ==
    [ptys  |-> [p EXCEPT !.primary = IF p.primarySet /\ @ = "open" THEN "closed" ELSE @,
                         !.secondary = IF p.secondarySet /\ @ = "open" THEN "closed" ELSE @],
     alias |-> IF a # "unset" /\ removed THEN "none" ELSE a]

\* The steps of Start at which it can return an error.
StartOutcomes == {"ok", "pty.Open", "SetNonblock", "os.Remove", "os.Symlink"}

InitLife ==
    /\ impl \in {"jumperless-emulator", "internal/emulator"}
    /\ config \in IF impl = "jumperless-emulator" THEN {HardwareConfigured} ELSE Configs2
    /\ newErr = New(config)
    /\ jumperless = Jumperless0
    /\ requestCounters = <<>>
    /\ requestBuffer = <<>>
    /\ reader = "none"
    /\ handled = <<>>
    /\ workers = <<>>
    /\ written = <<>>
    /\ errors = <<>>
    /\ ParserIdle
    /\ ClientIdle
    /\ LifeNew
    /\ alias \in {"unset", "none", "stale"}

\* Start of the chunk-based emulator, failing at the step outcome names or
\* returning nil with the handler goroutine started.
Start2(outcome, removed) ==
    LET opened == Ptys("open", "open", FALSE)
        held   == Ptys("open", "open", TRUE)
    IN  /\ impl = "internal/emulator"
        /\ lifecycle = "new"
        /\ outcome \in StartOutcomes
        /\ outcome = "os.Remove" => alias = "stale"
        /\ outcome = "os.Symlink" => alias # "unset"
        /\ ptys' = CASE outcome = "pty.Open" -> ptys
                     [] outcome = "SetNonblock" -> tryCleanup(opened, alias, removed).ptys
                     [] outcome \in {"os.Remove", "os.Symlink"} ->
                            tryCleanup(held, alias, removed).ptys
                     [] OTHER -> held
        /\ alias' = CASE outcome = "pty.Open" -> alias
                      [] outcome = "SetNonblock" -> tryCleanup(opened, alias, removed).alias
                      [] outcome = "os.Remove" -> tryCleanup(held, alias, removed).alias
                      [] outcome = "os.Symlink" -> tryCleanup(held, "none", removed).alias
                      [] OTHER -> IF alias = "unset" THEN alias ELSE "ours"
        /\ startErr' = IF outcome = "ok" THEN "nil" ELSE outcome
        /\ lifecycle' = IF outcome = "ok" THEN "started" ELSE "failed"
        /\ reader' = IF outcome = "ok" THEN "running" ELSE reader
        /\ UNCHANGED <<impl, config, newErr, jumperless, requestCounters, requestBuffer,
                       handled, workers, written, errors, ctxDone, parserVars>>

\* Stop of the chunk-based emulator up to its sleep: e.cancel(nil).
StopCancel2 ==
    /\ impl = "internal/emulator"
    /\ lifecycle = "started"
    /\ ctxDone' = TRUE
    /\ lifecycle' = "cancelled"
    /\ UNCHANGED <<engineVars, parserVars, ptys, alias, startErr>>

\* Stop after the sleep: the forced Close of the pseudo TTY.
StopClose2 ==
    /\ impl = "internal/emulator"
    /\ lifecycle = "cancelled"
    /\ ptys' = [ptys EXCEPT !.primary = "closed"]
    /\ lifecycle' = "waiting"
    /\ UNCHANGED <<engineVars, parserVars, ctxDone, alias, startErr>>

\* e.wg.Wait() returns once the handler has, then tryCleanup, then return.
StopReturn2(removed) ==
    /\ impl = "internal/emulator"
    /\ lifecycle = "waiting"
    /\ reader = "exited"
    /\ ptys' = tryCleanup(ptys, alias, removed).ptys
    /\ alias' = tryCleanup(ptys, alias, removed).alias
    /\ lifecycle' = "stopped"
    /\ UNCHANGED <<engineVars, parserVars, ctxDone, startErr>>

\* The reader loop at its select with the context done (a Read that
\* returned an error or no data has brought it there): it returns.
readerExit ==
    /\ reader = "running"
    /\ ctxDone
    /\ reader' = "exited"
    /\ UNCHANGED <<impl, config, newErr, jumperless, requestCounters, requestBuffer,
                   handled, workers, written, errors, parserVars, lifeVars>>

\* Start of the hardware-state emulator.  A failed os.Remove is logged
\* only, and the os.Symlink after it finds the path taken.
Start1(outcome, removed) ==
    /\ impl = "jumperless-emulator"
    /\ lifecycle = "new"
    /\ outcome \in {"ok", "pty.Open", "os.Symlink"}
    /\ outcome = "os.Symlink" => alias # "unset"
    /\ (outcome = "ok" /\ alias = "stale") => removed
    /\ ptys' = IF outcome = "pty.Open" THEN ptys ELSE Ptys("open", "open", TRUE)
    /\ alias' = CASE outcome = "pty.Open" \/ alias = "unset" -> alias
                  [] outcome = "os.Symlink" ->
                         IF alias = "stale" /\ ~removed THEN alias ELSE "none"
                  [] OTHER -> "ours"
    /\ startErr' = IF outcome = "ok" THEN "nil" ELSE outcome
    /\ lifecycle' = IF outcome = "ok" THEN "started" ELSE "failed"
    /\ reader' = IF outcome = "ok" THEN "running" ELSE reader
    /\ UNCHANGED <<impl, config, newErr, jumperless, requestCounters, requestBuffer,
                   handled, workers, written, errors, ctxDone, parserVars>>

\* Stop of the hardware-state emulator: close(e.shutdown).
StopSignal1 ==
    /\ impl = "jumperless-emulator"
    /\ lifecycle = "started"
    /\ ctxDone' = TRUE
    /\ lifecycle' = "cancelled"
    /\ UNCHANGED <<engineVars, parserVars, ptys, alias, startErr>>

\* The rest of Stop: both files closed, the path removed, return nil.
StopClose1(removed) ==
    /\ impl = "jumperless-emulator"
    /\ lifecycle = "cancelled"
    /\ ptys' = tryCleanup(ptys, alias, removed).ptys
    /\ alias' = tryCleanup(ptys, alias, removed).alias
    /\ lifecycle' = "stopped"
    /\ UNCHANGED <<engineVars, parserVars, ctxDone, startErr>>

NextLife2 ==
    \/ \E outcome \in StartOutcomes : \E removed \in BOOLEAN : Start2(outcome, removed)
    \/ StopCancel2
    \/ StopClose2
    \/ \E removed \in BOOLEAN : StopReturn2(removed)
    \/ Next2

NextLife1 ==
    \/ \E outcome \in StartOutcomes : \E removed \in BOOLEAN : Start1(outcome, removed)
    \/ StopSignal1
    \/ \E removed \in BOOLEAN : StopClose1(removed)
    \/ NextLegacy

NextLife == NextLife1 \/ NextLife2 \/ readerExit

\* The chunk-based emulator from a successful Start to the return of Stop.
\* Stop's sleep ends and its calls return; a delivery's sleeps end and its
\* Write returns; a Read on the closed pseudo TTY returns (an open one may
\* hold the reader until data comes).
NextStop2 ==
    \/ Next2
    \/ StopCancel2
    \/ StopClose2
    \/ \E removed \in BOOLEAN : StopReturn2(removed)
    \/ readerExit

FairStop2 ==
    /\ WF_vars(StopClose2)
    /\ WF_vars(\E removed \in BOOLEAN : StopReturn2(removed))
    /\ WF_vars(readerExit /\ ptys.primary = "closed")
    /\ WF_vars(\E w \in DOMAIN workers : \E result \in {"ok", "error", "short"} :
                  \E n \in 0..2 : sendResponse2(w, result, n))

SpecStop2 == Init2 /\ [][NextStop2]_vars /\ FairStop2

SpecLife == InitLife /\ [][NextLife]_vars

\* Start called on an emulator that Start has been called on before.  Neither
\* Start looks at what the emulator holds: it opens a new pseudo terminal,
\* overwrites the file fields and starts a handler goroutine.  The handler
\* of the earlier Start is still in its loop unless it has returned.  The
\* chunk-based emulator gives the new handler a new context; the other one
\* uses the caller's context and the shutdown channel, which stays closed
\* after a Stop.
StartAgain(outcome) ==
    /\ impl \in {"jumperless-emulator", "internal/emulator"}
    /\ lifecycle \in {"started", "cancelled", "waiting", "stopped"}
    /\ outcome \in {"ok", "pty.Open"}
    /\ ptys' = IF outcome = "ok" THEN Ptys("open", "open", TRUE) ELSE ptys
    /\ alias' = IF outcome = "ok" /\ alias # "unset" THEN "ours" ELSE alias
    /\ startErr' = IF outcome = "ok" THEN "nil" ELSE outcome
    /\ lifecycle' = IF outcome = "ok" THEN "started" ELSE lifecycle
    /\ ctxDone' = IF outcome = "ok" /\ impl = "internal/emulator" THEN FALSE ELSE ctxDone
    /\ reader' = IF outcome # "ok" THEN reader
                 ELSE IF reader \in {"running", "sending"} THEN "running twice"
                 ELSE "running"
    /\ UNCHANGED <<impl, config, newErr, jumperless, requestCounters, requestBuffer,
                   handled, workers, written, errors, parserVars>>

\* Start and Stop in any order, with no client.
NextRestart ==
    \/ \E outcome \in StartOutcomes : \E removed \in BOOLEAN : Start1(outcome, removed)
    \/ \E outcome \in StartOutcomes : \E removed \in BOOLEAN : Start2(outcome, removed)
    \/ \E outcome \in StartOutcomes : StartAgain(outcome)
    \/ StopSignal1
    \/ \E removed \in BOOLEAN : StopClose1(removed)
    \/ StopCancel2
    \/ StopClose2
    \/ \E removed \in BOOLEAN : StopReturn2(removed)
    \/ readerExit

SpecRestart == InitLife /\ [][NextRestart]_vars

\* The hardware-state emulator delivering chunked responses, and its Stop,
\* which closes the files with deliveries in flight.
InitChunked ==
    /\ impl = "jumperless-emulator"
    /\ config = ChunkedConfig
    /\ newErr = New(config)
    /\ jumperless = Jumperless0
    /\ requestCounters = <<>>
    /\ requestBuffer = <<>>
    /\ reader = "running"
    /\ handled = <<>>
    /\ workers = <<>>
    /\ written = <<>>
    /\ errors = <<>>
    /\ ParserIdle
    /\ ClientIdle
    /\ LifeStarted

NextChunked ==
    \/ NextLegacy
    \/ StopSignal1
    \/ \E removed \in BOOLEAN : StopClose1(removed)
    \/ readerExit

SpecChunked == InitChunked /\ [][NextChunked]_vars


(***************************************************************************)
(* Reads that return an error.  Both readers test os.IsTimeout, io.EOF and *)
(* any other error in turn, log the last two, and continue.                *)
(***************************************************************************)

\* Number of logged read errors in a run.
MaxReadFaults == 1

ReadErrors == {"timeout", "EOF", "error"}

\* A reader that returns when its client disconnects.
mReturnOnEOF(err) == IF err = "EOF" THEN "exited" ELSE "running"

\* The three branches of `if err != nil` all end in continue.
readerAfterError(err) == "running"

\* What the reader logs for a failed Read.
readErrorLog(err) ==
    CASE err = "timeout" -> <<>>
      [] err = "EOF"     -> <<"Client disconnected">>
      [] OTHER           -> <<"Error reading from pty">>

\* One iteration of either reader loop whose Read returned an error.  A
\* Read on a closed file returns an error that is neither a timeout nor
\* io.EOF.
handleReadError(err) ==
    LET logged == Cardinality({k \in DOMAIN errors : errors[k].by = 0})
    IN  /\ impl \in {"jumperless-emulator", "internal/emulator"}
        /\ reader = "running"
        /\ err \in ReadErrors
        /\ ptys.primary = "closed" => err = "error"
        /\ readErrorLog(err) # <<>> => logged < MaxReadFaults
        /\ errors' = errors \o [k \in DOMAIN readErrorLog(err) |->
                                   [by |-> 0, err |-> readErrorLog(err)[k],
                                    after |-> Len(handled)]]
        /\ reader' = readerAfterError(err)
        /\ UNCHANGED <<impl, config, newErr, jumperless, requestCounters, requestBuffer,
                       handled, workers, written, parserVars, lifeVars>>

\* Both emulators, started on a configuration with commands or chunks, with
\* failing reads and the cancellation that Stop begins with.
InitReads ==
    \/ InitLegacy /\ config = HardwareConfigured
    \/ Init2

\* What the client writes between the failing reads: a query, a command
\* and white space.
ReadsBetweenErrors == { <<"?">>, <<"set_dac", "(", "1", ",", "2", ")">>, <<" ">> }

NextReads ==
    \/ \E data \in ReadsBetweenErrors : handleRequests(data)
    \/ \E w \in DOMAIN workers : sendResponseLoad(w)
    \/ \E w \in DOMAIN workers : sendResponseCount(w)
    \/ \E w, x \in DOMAIN workers : concurrentMapWrites(w, x)
    \/ \E w \in DOMAIN workers : \E draw \in 0..3 : sendResponseProcess(w, draw)
    \/ \E w \in DOMAIN workers : sendResponseFinish(w)
    \/ \E w \in DOMAIN workers : sendWrite(w)
    \/ \E data \in ReadsBetweenErrors : handleRequests2(data)
    \/ \E w \in DOMAIN workers : \E result \in {"ok", "error", "short"} :
          \E n \in 0..2 : sendResponse2(w, result, n)
    \/ \E err \in ReadErrors : handleReadError(err)
    \/ StopSignal1
    \/ StopCancel2
    \/ readerExit

SpecReads == InitReads /\ [][NextReads]_vars

(***************************************************************************)
(* JumperlessPort (jumperless/jumperless-port.go).  Open, Close and        *)
(* execRawCommand test p.port before they take portLock: a call is two     *)
(* steps, the test and the locked rest, and the locked rests of two calls  *)
(* never overlap.  A handle is a number, p.port = 0 is the nil interface.  *)
(***************************************************************************)

IdleEngine ==
    /\ config = [name |-> "none", Mappings |-> <<>>]
    /\ newErr = "nil"
    /\ jumperless = Jumperless0
    /\ requestCounters = <<>>
    /\ requestBuffer = <<>>
    /\ reader = "stopped"
    /\ handled = <<>>
    /\ workers = <<>>
    /\ written = <<>>
    /\ errors = <<>>
    /\ ParserIdle
    /\ LifeNew
    /\ alias = "none"

InitPort ==
    /\ impl = "jumperless-port"
    /\ IdleEngine
    /\ PortIdle
    /\ ReconcilerIdle

PortFrame == UNCHANGED <<engineVars, netsOutput, nets, parseErrs, parsed, configVars,
                         pythonVars, proxy, recon, lifeVars>>

\* Open: `if p.port != nil { return ErrPortAlreadyOpen }`, then under the
\* lock serial.Open and p.port = port.
Open(c, outcome) ==
    /\ impl = "jumperless-port"
    /\ ~port.panicked
    /\ \/ /\ port.calls[c].pc = "idle"
          /\ port.made < MaxPortCalls
          /\ outcome = "ok"
          /\ port' = [port EXCEPT !.made = @ + 1,
                                  !.calls[c] = IF port.port # 0
                                               THEN PortCall("Open", "idle", "ErrPortAlreadyOpen")
                                               ELSE PortCall("Open", "lock", "none")]
       \/ /\ port.calls[c] = PortCall("Open", "lock", "none")
          /\ port' = IF outcome = "ok"
                     THEN [port EXCEPT !.opened = @ + 1,
                                       !.open = @ \cup {port.opened + 1},
                                       !.port = port.opened + 1,
                                       !.calls[c] = PortCall("Open", "idle", "nil")]
                     ELSE [port EXCEPT !.calls[c] = PortCall("Open", "idle", "serial.Open")]
    /\ PortFrame

\* Close: `if p.port == nil { return ErrPortNotOpen }`, then under the lock
\* p.port.Close() and p.port = nil.  p.port.Close() on the nil interface is
\* a nil pointer dereference.
Close(c, outcome) ==
    /\ impl = "jumperless-port"
    /\ ~port.panicked
    /\ \/ /\ port.calls[c].pc = "idle"
          /\ port.made < MaxPortCalls
          /\ outcome = "ok"
          /\ port' = [port EXCEPT !.made = @ + 1,
                                  !.calls[c] = IF port.port = 0
                                               THEN PortCall("Close", "idle", "ErrPortNotOpen")
                                               ELSE PortCall("Close", "lock", "none")]
       \/ /\ port.calls[c] = PortCall("Close", "lock", "none")
          /\ port' = IF port.port = 0
                     THEN [port EXCEPT !.panicked = TRUE,
                                       !.calls[c] = PortCall("Close", "idle", "panic")]
                     ELSE IF outcome = "ok"
                     THEN [port EXCEPT !.open = @ \ {port.port},
                                       !.port = 0,
                                       !.calls[c] = PortCall("Close", "idle", "nil")]
                     ELSE [port EXCEPT !.calls[c] = PortCall("Close", "idle", "port.Close")]
    /\ PortFrame

\* execRawCommand: `if p.port == nil { return ErrUninitializedSerialPort }`,
\* then under the lock the resets, the Write, the Drain and the Reads on
\* p.port.
execRawCommand(c, outcome) ==
    /\ impl = "jumperless-port"
    /\ ~port.panicked
    /\ \/ /\ port.calls[c].pc = "idle"
          /\ port.made < MaxPortCalls
          /\ outcome = "ok"
          /\ port' = [port EXCEPT !.made = @ + 1,
                                  !.calls[c] = IF port.port = 0
                                               THEN PortCall("execRawCommand", "idle",
                                                             "ErrUninitializedSerialPort")
                                               ELSE PortCall("execRawCommand", "lock", "none")]
       \/ /\ port.calls[c] = PortCall("execRawCommand", "lock", "none")
          /\ port' = IF port.port = 0
                     THEN [port EXCEPT !.panicked = TRUE,
                                       !.calls[c] = PortCall("execRawCommand", "idle", "panic")]
                     ELSE [port EXCEPT !.calls[c] =
                              PortCall("execRawCommand", "idle",
                                       IF outcome = "ok" THEN "nil" ELSE "port.Write")]
    /\ PortFrame

NextPort ==
    \/ \E c \in Callers : \E outcome \in {"ok", "error"} : Open(c, outcome)
    \/ \E c \in Callers : \E outcome \in {"ok", "error"} : Close(c, outcome)
    \/ \E c \in Callers : \E outcome \in {"ok", "error"} : execRawCommand(c, outcome)

SpecPort == InitPort /\ [][NextPort]_vars


(***************************************************************************)
(* JumperlessReconciler (internal/controller/jumperless_controller.go).    *)
(* The Jumperless object is its spec's host and generation and its status: *)
(* the Ready condition (Status "" when absent) and which of the fields the *)
(* local reconciliation fills are set.  One call of Reconcile is one step; *)
(* what the device and the API server answer is drawn.                     *)
(***************************************************************************)

Condition(status, reason, generation) ==
    [Status |-> status, Reason |-> reason, ObservedGeneration |-> generation]

NoCondition == Condition("", "", 0)

\* meta.SetStatusCondition on the Ready condition.
SetStatusCondition(status, condition) == [status EXCEPT !.Ready = condition]

\* reconcileRemote: Ready False, not implemented.
reconcileRemote(status, generation) ==
    [status |-> SetStatusCondition(status, Condition("False", "NotImplemented", generation)),
     err    |-> "ErrNotImplemented"]

\* The step of a local reconciliation that fails, "nil" for none, in the
\* order of the calls.
LocalOutcomes == {"NewJumperless", "ErrNoJumperlessFound", "OpenPort", "GetDAC", "GetNets",
                  "GetConfig", "nil"}

\* reconcileLocal: the status it leaves and the error it returns.
reconcileLocal(status, generation, outcome) ==
    LET current == status.Ready
        ready   == SetStatusCondition(status, Condition("True", "Reconciled", generation))
        probed  == [ready EXCEPT !.LocalPort = TRUE, !.FirmwareVersion = TRUE]
        dacs    == [probed EXCEPT !.DACS = TRUE]
        netted  == [dacs EXCEPT !.Nets = TRUE]
    IN  IF current = NoCondition
           \/ (current.Status = "True" /\ current.ObservedGeneration # generation)
        THEN [status |-> SetStatusCondition(status,
                                            Condition("False", "Reconciling", generation)),
              err |-> "nil"]
        ELSE IF outcome \in {"NewJumperless", "ErrNoJumperlessFound"}
        THEN [status |-> SetStatusCondition(status,
                                            Condition("False", "NoJumperlessFound", generation)),
              err |-> outcome]
        ELSE IF outcome = "OpenPort"
        THEN [status |-> SetStatusCondition(status,
                                            Condition("False", "PortOpenError", generation)),
              err |-> outcome]
        ELSE IF outcome = "GetDAC" THEN [status |-> probed, err |-> outcome]
        ELSE IF outcome = "GetNets" THEN [status |-> dacs, err |-> outcome]
        ELSE IF outcome = "GetConfig" THEN [status |-> netted, err |-> outcome]
        ELSE [status |-> [netted EXCEPT !.Config = TRUE], err |-> "nil"]

InitReconciler ==
    /\ impl = "controller"
    /\ IdleEngine
    /\ PortIdle
    /\ \E host \in {"local", "ssh", "none"} :
          recon = [made |-> 0, host |-> host, generation |-> 1,
                   status |-> [Ready |-> NoCondition, LocalPort |-> FALSE,
                               FirmwareVersion |-> FALSE, DACS |-> FALSE, Nets |-> FALSE,
                               Config |-> FALSE],
                   last |-> [call |-> "none", err |-> "nil", patched |-> FALSE,
                             Ready |-> NoCondition, retErr |-> "nil"]]

ReconcilerFrame == UNCHANGED <<engineVars, netsOutput, nets, parseErrs, parsed, configVars,
                               pythonVars, proxy, port, lifeVars>>

\* One call of Reconcile on the object, with r.Get succeeding: the Ready
\* condition is initialised, or the host's reconciliation runs, and the
\* deferred patchStatus sends the status, which the server takes or not.
Reconcile(outcome, patchOk) ==
    LET instance == recon.status
        call   == IF instance.Ready = NoCondition THEN "init"
                  ELSE IF recon.host = "local" THEN "reconcileLocal"
                  ELSE IF recon.host = "ssh" THEN "reconcileRemote"
                  ELSE "default"
        result == CASE call = "init" ->
                         [status |-> SetStatusCondition(instance,
                                        Condition("Unknown", "Reconciling", recon.generation)),
                          err |-> "nil"]
                    [] call = "reconcileLocal" ->
                         reconcileLocal(instance, recon.generation, outcome)
                    [] call = "reconcileRemote" ->
                         reconcileRemote(instance, recon.generation)
                    [] OTHER -> [status |-> instance, err |-> "ErrUnknownHostType"]
    IN  /\ impl = "controller"
        /\ recon.made < MaxReconciles
        /\ outcome \in LocalOutcomes
        /\ call # "reconcileLocal" => outcome = "nil"
        /\ recon' = [recon EXCEPT
                        !.made = @ + 1,
                        !.status = IF patchOk THEN result.status ELSE @,
                        !.last = [call |-> call, err |-> result.err, patched |-> patchOk,
                                  Ready |-> result.status.Ready,
                                  retErr |-> IF patchOk THEN result.err ELSE "patch"]]
        /\ ReconcilerFrame

\* r.Get fails: Reconcile returns before the deferred patch is set up.
ReconcileGetFails ==
    /\ impl = "controller"
    /\ recon.made < MaxReconciles
    /\ recon' = [recon EXCEPT
                    !.made = @ + 1,
                    !.last = [call |-> "r.Get", err |-> "nil", patched |-> FALSE,
                              Ready |-> NoCondition, retErr |-> "r.Get"]]
    /\ ReconcilerFrame

\* The user changes the spec of the object: a new generation.
UpdateSpec(host) ==
    /\ impl = "controller"
    /\ recon.generation < MaxGeneration
    /\ recon' = [recon EXCEPT !.generation = @ + 1, !.host = host]
    /\ ReconcilerFrame

NextReconciler ==
    \/ \E outcome \in LocalOutcomes : \E patchOk \in BOOLEAN : Reconcile(outcome, patchOk)
    \/ ReconcileGetFails
    \/ \E host \in {"local", "ssh", "none"} : UpdateSpec(host)

SpecReconciler == InitReconciler /\ [][NextReconciler]_vars


(***************************************************************************)
(* Both emulators                                                          *)
(***************************************************************************)

InitEmulators == InitLegacy \/ Init2

NextEmulators == NextLegacy \/ Next2

SpecEmulators == InitEmulators /\ [][NextEmulators]_vars


(***************************************************************************)
(* Properties                                                              *)
(***************************************************************************)

\* C1: for a mapping with k options and sequential selection, the option
\* served to a matching request on a fresh engine is the number of earlier
\* requests matched to the same mapping, modulo k: options 0,1,...,k-1,0,...
C1_SequentialFromZero ==
    \A w \in DOMAIN workers :
        LET rr      == config.Mappings[workers[w].m]
            earlier == Cardinality({h \in 1..(w - 1) : handled[h].m = workers[w].m})
        IN  ( /\ impl = "jumperless-emulator"
              /\ rr.Response = <<>>
              /\ Len(rr.Responses) >= 2
              /\ rr.ResponseConfig.SelectionMode = "sequential"
              /\ workers[w].idx >= 0 )
            => workers[w].idx = earlier % Len(rr.Responses)

\* C2: at every moment at most one request's counter update, state
\* mutation, placeholder rendering and delivery is in progress.
C2_OneRequestInProgress ==
    Cardinality({w \in DOMAIN workers : workers[w].pc \notin {"done", "killed"}}) <= 1

\* C3: the indices of the nets parseNets returns are strictly increasing:
\* a record whose index is not greater than that of the last parsed net is
\* dropped.
C3_IndicesStrictlyIncreasing ==
    parsed => \A i \in 1..(Len(nets) - 1) : nets[i].Index < nets[i + 1].Index

\* C4: constructing an engine with a mapping that has isRegex = true and a
\* pattern that does not compile fails with an error.
C4_BadRegexFailsNew ==
    (\E i \in 1..Len(config.Mappings) :
        /\ impl = "jumperless-emulator"
        /\ config.Mappings[i].IsRegex
        /\ ~RegexCompiles(config.Mappings[i].Request))
    => newErr # "nil"

C6_OneEntryPerPair ==
    \A i, k \in 1..Len(jumperless.Connections) :
        i < k => ~SamePair(jumperless.Connections[i], jumperless.Connections[k].NodeA,
                           jumperless.Connections[k].NodeB)

\* C7: a set_dac request updates the hardware state also when no mapping
\* matches it: with no delivery in progress, the channel of the only
\* set_dac request read so far holds that request's voltage.
C7_CommandsApplyWithoutMapping ==
    \A h \in 1..Len(handled) :
        LET m == SetDacMatch(handled[h].request)
        IN  ( /\ impl = "jumperless-emulator"
              /\ \A w \in DOMAIN workers : workers[w].pc = "done"
              /\ \A i \in 1..Len(config.Mappings) :
                    ~Matches(config.Mappings[i], handled[h].request)
              /\ m.ok
              /\ InDacRange(parseFloat(m.b))
              /\ \A g \in 1..Len(handled) : g # h => ~SetDacMatch(handled[g].request).ok )
            => /\ m.a \in DOMAIN jumperless.DACChannels
               /\ jumperless.DACChannels[m.a].Voltage = parseFloat(m.b)

\* C8: the step that reads a request matching no configured mapping writes
\* nothing, returns no error, changes no request counter and starts no
\* delivery; the reader keeps running with an empty buffer, and the matching
\* request read next is given its delivery.
C8_UnmatchedRequestIsDropped ==
    [][LET ord     == Len(handled')
           request == handled'[ord].request
           matches(i, r) ==
               IF impl = "jumperless-emulator" THEN Matches(config.Mappings[i], r)
               ELSE Matches2(config.Mappings[i], r)
           unmatched(r) == \A i \in 1..Len(config.Mappings) : ~matches(i, r)
       IN  (Len(handled') = Len(handled) + 1 /\ request # <<>>) =>
              /\ unmatched(request) =>
                    /\ written' = written
                    /\ errors' = errors
                    /\ requestCounters' = requestCounters
                    /\ workers' = workers
                    /\ reader' = "running"
                    /\ requestBuffer' = <<>>
              /\ ( /\ ord > 1
                   /\ handled[ord - 1].request # <<>>
                   /\ unmatched(handled[ord - 1].request)
                   /\ ~unmatched(request) )
                 => /\ ord \in DOMAIN workers'
                    /\ matches(workers'[ord].m, request)]_vars

\* C8 witness: an unmatched request was read and the matching request read
\* after it has had a response written.
C8_Witness ==
    \E h, g \in 1..Len(handled) :
        /\ h < g
        /\ handled[h].request # <<>>
        /\ handled[h].m = 0
        /\ handled[g].m # 0
        /\ \E k \in 1..Len(written) : written[k].by = g

\* C9 (as the code has it): the writes made for a response option are, in
\* list order, the whole unquoted data of the option's first chunks, one
\* chunk per write and next to each other on the channel; only the last of
\* them can fail or be cut short, and when none does there are exactly n
\* writes for the n chunks.
C9_WritesArePrefixOfChunks ==
    \A w \in DOMAIN workers :
        LET chunks == config.Mappings[workers[w].m].Responses[workers[w].idx + 1].Chunks
            K      == {k \in 1..Len(written) : written[k].by = w}
            first  == Min(K)
            bytes(chunk) == IF Unquote(chunk.Data).ok THEN Unquote(chunk.Data).text
                            ELSE chunk.Data
        IN  (impl = "internal/emulator" /\ workers[w].idx >= 0) =>
              /\ Cardinality(K) <= Len(chunks)
              /\ K # {} =>
                    /\ K = first..(first + Cardinality(K) - 1)
                    /\ \A k \in K :
                          /\ written[k].data = bytes(chunks[k - first + 1])
                          /\ written[k].result = "ok" => written[k].n = Len(written[k].data)
                          /\ written[k].result # "ok" => k = first + Cardinality(K) - 1
              /\ ( /\ workers[w].pc = "done"
                   /\ \A k \in K : written[k].result = "ok" )
                 => Cardinality(K) = Len(chunks)
              /\ workers[w].pc # "done" => Cardinality(K) < Len(chunks)

\* C9 witness: an option of three chunks has been delivered in three whole
\* writes.
C9_Witness ==
    \E w \in DOMAIN workers :
        /\ impl = "internal/emulator"
        /\ workers[w].pc = "done"
        /\ workers[w].idx >= 0
        /\ Len(config.Mappings[workers[w].m].Responses[workers[w].idx + 1].Chunks) = 3
        /\ Cardinality({k \in 1..Len(written) :
                           written[k].by = w /\ written[k].result = "ok"}) = 3

\* C9 as stated: for a response option with n chunks the engine performs
\* exactly n writes, each carrying the whole data of one chunk.
C9_ExactlyNWrites ==
    \A w \in DOMAIN workers :
        ( /\ impl = "internal/emulator"
          /\ workers[w].pc = "done"
          /\ workers[w].idx >= 0 )
        => Cardinality({k \in 1..Len(written) :
                           /\ written[k].by = w
                           /\ written[k].n = Len(written[k].data)})
           = Len(config.Mappings[workers[w].m].Responses[workers[w].idx + 1].Chunks)

\* C10: a request that contains a mapping's pattern as a substring is
\* matched to a mapping, also with extra text around the pattern.
C10_LiteralMatchesBySubstring ==
    \A h \in 1..Len(handled) :
        (\E i \in 1..Len(config.Mappings) :
            Contains(handled[h].request, config.Mappings[i].Request))
        => handled[h].m # 0


\* C11: the mapping selected for a request is the first one, in
\* configuration order, that matches it, also when later mappings match;
\* none is selected only when none matches.
C11_FirstMatchWins ==
    \A h \in 1..Len(handled) :
        LET request == handled[h].request
            matches(i) ==
                IF impl = "jumperless-emulator" THEN Matches(config.Mappings[i], request)
                ELSE Matches2(config.Mappings[i], request)
            I == {i \in 1..Len(config.Mappings) : matches(i)}
        IN  request # <<>> =>
              /\ handled[h].m = 0 <=> I = {}
              /\ handled[h].m # 0 =>
                    /\ handled[h].m \in I
                    /\ \A i \in I : handled[h].m <= i

\* C11 witness: a request that two mappings match was given the first one.
C11_Witness ==
    \E h \in 1..Len(handled) :
        /\ impl = "jumperless-emulator"
        /\ Len(config.Mappings) >= 2
        /\ handled[h].m = 1
        /\ Matches(config.Mappings[1], handled[h].request)
        /\ Matches(config.Mappings[2], handled[h].request)


\* C12: when Start has returned an error, every resource it allocated has
\* been released: neither pty file is open and no alias of its making is
\* left.
C12_FailedStartReleasesAll ==
    lifecycle = "failed" =>
        /\ ptys.primary # "open"
        /\ ptys.secondary # "open"
        /\ alias # "ours"

\* C13: once Stop has returned, the reader loop has exited and both pty
\* files are closed.
C13_StoppedMeansDrained ==
    lifecycle = "stopped" =>
        /\ reader = "exited"
        /\ ptys.primary = "closed"
        /\ ptys.secondary = "closed"


\* C14 case: Stop has returned after a delivery that had written a chunk
\* before the cancellation, wrote another after it, and was cut off by the
\* forced close of the pseudo TTY.
C14_Witness ==
    \E w \in DOMAIN workers :
        /\ lifecycle = "stopped"
        /\ \E k \in 1..Len(written) : written[k].by = w /\ ~written[k].cancelled
        /\ \E k \in 1..Len(written) :
              written[k].by = w /\ written[k].cancelled /\ written[k].result = "ok"
        /\ \E k \in 1..Len(written) :
              written[k].by = w /\ written[k].cancelled /\ written[k].result = "error"

\* C14: of a delivery in flight at the cancellation, at most the
\* chunk in progress is written after it, and no later chunk.
C14_AtMostChunkInProgress ==
    \A w \in DOMAIN workers :
        (\E k \in 1..Len(written) : written[k].by = w /\ ~written[k].cancelled)
        => Cardinality({k \in 1..Len(written) :
                           written[k].by = w /\ written[k].cancelled /\ written[k].n > 0}) <= 1


\* C15: a request whose mapping has no responses is reported with
\* ErrNoResponsesConfigured and skipped: nothing is written, no counter
\* moves, and the reader is back at its loop with an empty buffer, ready for
\* the next request.
C15_NoResponsesIsSkipped ==
    [][\A ord \in 1..Len(handled') :
          (/\ Len(handled') = Len(handled) + 1
           /\ ord = Len(handled')
           /\ handled'[ord].m # 0
           /\ Len(config.Mappings[handled'[ord].m].Responses) = 0)
          => /\ errors' = Append(errors, [by |-> ord, err |-> "ErrNoResponsesConfigured"])
             /\ written' = written
             /\ requestCounters' = requestCounters
             /\ requestBuffer' = <<>>
             /\ reader' = "running"]_vars

\* C15 witness: an exchange was skipped for want of responses and a later
\* request was answered.
C15_Witness ==
    \E e \in 1..Len(errors) : \E k \in 1..Len(written) :
        /\ errors[e].err = "ErrNoResponsesConfigured"
        /\ written[k].by > errors[e].by
        /\ written[k].result = "ok"
        /\ \A j \in 1..Len(written) : written[j].by # errors[e].by


\* C16: a chunk Write that fails or takes fewer bytes than the chunk holds
\* ends the delivery with an error (ErrPartialWrite when it came short), no
\* chunk of that delivery is written after it, and the reader returns to its
\* loop.
C16_FailedWriteEndsDelivery ==
    /\ [](\A k \in 1..Len(written) :
             (written[k].result # "ok" \/ written[k].n < Len(written[k].data))
             => \A j \in (k + 1)..Len(written) : written[j].by # written[k].by)
    /\ [][\A k \in 1..Len(written') :
             (/\ Len(written') = Len(written) + 1
              /\ k = Len(written')
              /\ (written'[k].result = "error" \/ written'[k].n < Len(written'[k].data)))
             => /\ Len(errors') = Len(errors) + 1
                /\ errors'[Len(errors')].by = written'[k].by
                /\ (written'[k].result # "error"
                      => errors'[Len(errors')].err = "ErrPartialWrite")
                /\ workers'[written'[k].by].pc = "done"
                /\ reader' = "running"
                /\ requestBuffer' = <<>>]_vars

\* C16 witness: a Write came short with chunks of its response still to
\* send, and a later request was answered.
C16_Witness ==
    \E k \in 1..Len(written) : \E j \in 1..Len(written) :
        LET w == written[k].by
            chunks == config.Mappings[workers[w].m].Responses[workers[w].idx + 1].Chunks
        IN  /\ written[k].result = "short"
            /\ Cardinality({i \in 1..Len(written) : written[i].by = w}) < Len(chunks)
            /\ written[j].by > w
            /\ written[j].result = "ok"


\* C17: in every weighted mapping of several options, with each weight that
\* is not positive counted as 1, the draws that select an option are as many
\* as its weight and lie together; a delivery has the option whose share of
\* 0..W-1 holds its draw, the shares laid out in the order of the options.
C17_WeightedShares ==
    LET w(rr, i) == IF rr.Responses[i].Weight <= 0 THEN 1 ELSE rr.Responses[i].Weight
        Below(rr, i) == Cardinality({p \in (1..(i - 1)) \X (1..3) : p[2] <= w(rr, p[1])})
        Total(rr) == Below(rr, Len(rr.Responses) + 1)
        weighted(rr) == /\ rr.Response = <<>>
                        /\ Len(rr.Responses) > 1
                        /\ rr.ResponseConfig.SelectionMode = "weighted"
    IN  /\ \A m \in DOMAIN config.Mappings :
              weighted(config.Mappings[m]) =>
                 \A i \in DOMAIN config.Mappings[m].Responses :
                    {d \in 0..(Total(config.Mappings[m]) - 1) :
                        getWeightedResponse(config.Mappings[m], d) = i - 1}
                    = Below(config.Mappings[m], i)..(Below(config.Mappings[m], i + 1) - 1)
        /\ \A k \in DOMAIN workers :
              (workers[k].draw >= 0 /\ weighted(config.Mappings[workers[k].m])) =>
                 /\ workers[k].draw < Total(config.Mappings[workers[k].m])
                 /\ Below(config.Mappings[workers[k].m], workers[k].idx + 1) <= workers[k].draw
                 /\ workers[k].draw < Below(config.Mappings[workers[k].m], workers[k].idx + 2)

\* C17 witness: with weights 1 and 3 a draw of 1 chose the second option, and
\* with weights 0, 2 and -1 a draw of 3 chose the third.
C17_Witness ==
    \E j, k \in DOMAIN workers :
        /\ config.Mappings[workers[j].m].Request = <<"x">>
        /\ workers[j].draw = 1 /\ workers[j].idx = 1
        /\ config.Mappings[workers[k].m].Request = <<"w">>
        /\ workers[k].draw = 3 /\ workers[k].idx = 2


C18_ValueKeepsSpaceBeforeSemicolon ==
    LET line(k) == TrimSpace(configOutput[k])
        close(k) == Min({i \in 1..Len(line(k)) : line(k)[i] = "]"})
        eq(k) == Min({i \in (close(k) + 1)..Len(line(k)) : line(k)[i] = "="})
        entry(k) == /\ At(line(k), 1) = "<BT>" /\ At(line(k), 2) = "["
                    /\ \E i \in 1..Len(line(k)) : line(k)[i] = "]"
                    /\ \E i \in (close(k) + 1)..Len(line(k)) : line(k)[i] = "="
        name(k) == SubSeq(line(k), 3, close(k) - 1)
        key(k) == TrimSpace(SubSeq(line(k), close(k) + 1, eq(k) - 1))
        after(k) == TrimSpace(SubSeq(line(k), eq(k) + 1, Len(line(k))))
        value(k) == IF At(after(k), Len(after(k))) = ";"
                    THEN SubSeq(after(k), 1, Len(after(k)) - 1) ELSE after(k)
        last(k) == \A j \in (k + 1)..Len(configOutput) :
                      entry(j) => (name(j) # name(k) \/ key(j) # key(k))
    IN  configParsed =>
            \A k \in 1..Len(configOutput) :
                (entry(k) /\ last(k)) =>
                    \E i \in DOMAIN sections : \E j \in DOMAIN sections[i].Entries :
                        /\ sections[i].Name = name(k)
                        /\ sections[i].Entries[j].Key = key(k)
                        /\ sections[i].Entries[j].Value = value(k)

\* C18 witness: "key = value ;" was stored as "value " with its blank, and
\* "k=1;;" as "1;".
C18_Witness ==
    /\ configParsed
    /\ \E i \in DOMAIN sections : \E j \in DOMAIN sections[i].Entries :
          /\ sections[i].Entries[j].Key = <<"key">>
          /\ sections[i].Entries[j].Value = <<"value", " ">>
    /\ \E i \in DOMAIN sections : \E j \in DOMAIN sections[i].Entries :
          /\ sections[i].Entries[j].Key = <<"k">>
          /\ sections[i].Entries[j].Value = <<"1", ";">>

\* C20: a line that does not start with a backtick and "[" has no effect and
\* no error; a line that does and has no "]" is an error and makes no
\* section; a line that does and has "]" but no "=" after it is an error and
\* its section is returned, with no entries when no other line gives it one.
C20_ErrorsAndSectionsPerLine ==
    LET line(k) == TrimSpace(configOutput[k])
        Lines == 1..Len(configOutput)
        prefixed(k) == At(line(k), 1) = "<BT>" /\ At(line(k), 2) = "["
        closed(k) == prefixed(k) /\ \E i \in 1..Len(line(k)) : line(k)[i] = "]"
        close(k) == Min({i \in 1..Len(line(k)) : line(k)[i] = "]"})
        entry(k) == closed(k) /\ \E i \in (close(k) + 1)..Len(line(k)) : line(k)[i] = "="
        eq(k) == Min({i \in (close(k) + 1)..Len(line(k)) : line(k)[i] = "="})
        name(k) == SubSeq(line(k), 3, close(k) - 1)
        key(k) == TrimSpace(SubSeq(line(k), close(k) + 1, eq(k) - 1))
        Bad == {k \in Lines : prefixed(k) /\ ~entry(k)}
    IN  configParsed =>
            /\ {configErrs[i] : i \in DOMAIN configErrs} = Bad
            /\ Len(configErrs) = Cardinality(Bad)
            /\ {sections[i].Name : i \in DOMAIN sections} = {name(k) : k \in {j \in Lines : closed(j)}}
            /\ Len(sections) = Cardinality({name(k) : k \in {j \in Lines : closed(j)}})
            /\ \A i \in DOMAIN sections :
                  /\ {sections[i].Entries[j].Key : j \in DOMAIN sections[i].Entries}
                     = {key(k) : k \in {j \in Lines : entry(j) /\ name(j) = sections[i].Name}}
                  /\ Len(sections[i].Entries)
                     = Cardinality({key(k) : k \in {j \in Lines :
                                                      entry(j) /\ name(j) = sections[i].Name}})

\* C20 witness: of three lines one was no config line, one had no "]" and
\* one had "]" and no "="; two errors and the one section without entries
\* were returned.
C20_Witness ==
    /\ configParsed
    /\ Len(configOutput) = 3
    /\ Len(configErrs) = 2
    /\ Len(sections) = 1
    /\ sections[1].Entries = <<>>
    /\ \E k \in 1..3 : At(configOutput[k], 1) = "<BT>"
                       /\ \A i \in 1..Len(configOutput[k]) : configOutput[k][i] # "]"
    /\ \E k \in 1..3 : At(TrimSpace(configOutput[k]), 1) # "<BT>"


\* C21: a reply with fewer than three raw lines between "\r\n" separators is
\* a format error; otherwise the blank lines and the lines that start with
\* the prompt are dropped and the result is the trimmed line that remains,
\* the remaining lines joined by "\n", or a format error when none remains.
\* GetDAC returns that result trimmed, with "V" added unless it ends in V.
C21_ReplyEnvelope ==
    LET s == AnsiStrip(reply.text)
        P == {i \in 1..(Len(s) - 1) : s[i] = "\r" /\ s[i + 1] = "\n"}
        n == Cardinality(P) + 1
        sep(k) == CHOOSE q \in P : Cardinality({r \in P : r <= q}) = k
        raw(k) == SubSeq(s, IF k = 1 THEN 1 ELSE sep(k - 1) + 2,
                            IF k = n THEN Len(s) ELSE sep(k) - 1)
        line(k) == TrimSpace(raw(k))
        kept == {k \in 1..n : line(k) # <<>> /\ line(k)[1] # "Python>"}
        off(k) == Cardinality({c \in kept \X (1..Len(s)) :
                                  c[1] < k /\ c[2] <= Len(line(c[1])) + 1})
        total == Cardinality({c \in kept \X (1..Len(s)) : c[2] <= Len(line(c[1])) + 1}) - 1
        text == execResult.text
    IN  /\ (execResult # NoResult /\ ~reply.err) =>
              /\ (n < 3 \/ kept = {}) => execResult.err = "ErrUnexpectedCommandOutput"
              /\ (n >= 3 /\ kept # {}) =>
                    /\ execResult.err = "nil"
                    /\ Len(text) = total
                    /\ \A k \in kept :
                          /\ SubSeq(text, off(k) + 1, off(k) + Len(line(k))) = line(k)
                          /\ off(k) > 0 => text[off(k)] = "\n"
        /\ (execResult # NoResult /\ dacResult # NoResult) =>
              /\ execResult.err # "nil" => dacResult.err # "nil"
              /\ execResult.err = "nil" =>
                    /\ dacResult.err = "nil"
                    /\ dacResult.text =
                          IF execResult.text[Len(execResult.text)] \in {"V", " V"}
                          THEN execResult.text ELSE execResult.text \o <<"V">>

\* C21 witness: of a reply of four raw lines the prompt line and an empty
\* line were dropped and two lines were joined, and GetDAC added the V.
C21_Witness ==
    /\ execResult.err = "nil"
    /\ execResult.text = <<"3", ".", "3", "V", "\n", "3", ".", "3">>
    /\ dacResult.text = execResult.text \o <<"V">>
    /\ \E i \in 1..Len(reply.text) : reply.text[i] = "Python>"
    /\ Cardinality({i \in 1..(Len(reply.text) - 1) :
                       reply.text[i] = "\r" /\ reply.text[i + 1] = "\n"}) = 3


\* C22: while the engine lives, the counter of a mapping is never above the
\* number of requests matched to it, and once every such request has passed
\* its counter update it equals that number.
C22_CounterCountsMatches ==
    reader # "crashed" =>
        \A m \in DOMAIN config.Mappings :
            LET matched == {w \in DOMAIN workers : workers[w].m = m}
                pending == {w \in matched : workers[w].pc \in {"counter", "store"}}
            IN  /\ Counter(config.Mappings[m].Request) <= Cardinality(matched)
                /\ pending = {} => Counter(config.Mappings[m].Request) = Cardinality(matched)


\* C23: once Proxy.Stop has returned, with a recording file configured and
\* no error from writing it, the file holds what the recorder has recorded.
C23_StopSavesRecording ==
    (proxy.life \in {"returned", "exited"} /\ proxy.filename # "" /\ ~proxy.writeErr) =>
        /\ proxy.file.written
        /\ proxy.file.mappings = proxy.requests


\* C24: every grammar that matches one request is applied, in the order
\* set_dac, gpio_set, connect, disconnect, clear, whatever the order in the
\* text: a request with set_dac(1,2) and gpio_set(0,0) updates both DAC 1
\* and pin 0, and a request with connect(A,B) and clear(), in either order,
\* leaves no connection.
C24_AllGrammarsInFixedOrder ==
    [][\A w \in DOMAIN workers :
          LET request  == handled[w].request
              process  == workers[w].pc = "process" /\ workers'[w].pc = "finish"
              finish   == workers[w].pc = "finish" /\ workers'[w].pc \in {"write", "done"}
          IN  /\ (process /\ request = SetDacAndGpioLow)
                    => /\ jumperless'.DACChannels[<<"1">>].Voltage = [neg |-> FALSE, mag |-> 2000]
                       /\ jumperless'.GPIOPins[<<"0">>].Value = 0
              /\ (finish /\ request \in {ConnectThenClear, ClearThenConnect})
                    => jumperless'.Connections = <<>>
      ]_vars

\* A request that names clear() before connect(A,B) has been processed on a
\* board that had connections, and a request with two commands as well.
C24_Witness ==
    \E w, x \in DOMAIN workers :
        /\ handled[w].request = ClearThenConnect
        /\ workers[w].pc = "done"
        /\ handled[x].request = SetDacAndGpioLow
        /\ workers[x].pc = "done"
        /\ jumperless.Connections = <<>>
        /\ jumperless.DACChannels[<<"1">>].Voltage.mag = 2000


\* C25: the part of a disconnect(A,B) request's processing that changes the
\* connections leaves the pair {A,B} unconnected, leaves every other pair
\* where it was, in the same order, and adds no pair.
C25_DisconnectRemovesOnlyThePair ==
    [][\A w \in DOMAIN workers :
          LET AB(c)  == \/ (c.NodeA = <<"A">> /\ c.NodeB = <<"B">>)
                        \/ (c.NodeA = <<"B">> /\ c.NodeB = <<"A">>)
              Others(conns) == SelectSeq(conns, LAMBDA c : ~AB(c))
              before == jumperless.Connections
              after  == jumperless'.Connections
          IN  (/\ handled[w].request = <<"disconnect", "(", "A", ",", "B", ")">>
               /\ workers[w].pc = "finish"
               /\ workers'[w].pc \in {"write", "done"})
                 => /\ after = Others(after)
                    /\ Others(after) = Others(before)
      ]_vars

\* A disconnect(A,B) has been processed while the pair was connected.
C25_Witness ==
    \E w, x \in DOMAIN workers :
        /\ handled[w].request = <<"disconnect", "(", "A", ",", "B", ")">>
        /\ handled[x].request \in { <<"connect", "(", "A", ",", "B", ")">>,
                                    <<"connect", "(", "B", ",", " ", "A", ")">> }
        /\ workers[x].pc = "done"
        /\ workers[w].pc = "done"
        /\ x < w


\* C26: a set_dac request whose voltage is out of range or not a number
\* changes nothing of the hardware state and records no error, and the
\* configured response is still written.
C26_BadSetDacChangesNothing ==
    [][\A w \in DOMAIN workers :
          handled[w].request \in {SetDacTooHigh, SetDacMalformed}
             => /\ workers'[w] # workers[w] => (jumperless' = jumperless /\ errors' = errors)
                /\ (workers[w].pc = "finish" /\ workers'[w].pc \in {"write", "done"})
                      => /\ workers'[w].pc = "write"
                         /\ Len(workers'[w].out) = 1
                         /\ workers'[w].out[1] # <<>>
                /\ (workers[w].pc = "write" /\ workers'[w].pc = "done" /\ ptys.primary = "open")
                      => written' = Append(written, [by |-> w, data |-> workers[w].out[1]])
      ]_vars

\* Both kinds of bad set_dac have been answered, and DAC 0 is as configured.
C26_Witness ==
    \E w, x \in DOMAIN workers :
        /\ handled[w].request = SetDacTooHigh
        /\ handled[x].request = SetDacMalformed
        /\ workers[w].pc = "done"
        /\ workers[x].pc = "done"
        /\ \E k \in DOMAIN written : written[k].by = w
        /\ jumperless.DACChannels[<<"0">>] = Jumperless0.DACChannels[<<"0">>]


\* C27: processing gpio_set(0, 1) sets the value of pin 0 to 1 and changes
\* nothing else: the pin keeps its direction and pull, and every other
\* pin, the DAC and ADC channels and the connections stay as they were.
C27_GpioSetChangesOnlyTheValue ==
    [][\A w \in DOMAIN workers :
          handled[w].request = GpioSetHigh
             => /\ (workers[w].pc = "process" /\ workers'[w].pc = "finish")
                      => /\ jumperless'.GPIOPins[<<"0">>].Value = 1
                         /\ jumperless'.GPIOPins[<<"0">>].Direction
                               = jumperless.GPIOPins[<<"0">>].Direction
                         /\ jumperless'.GPIOPins[<<"0">>].Pull = jumperless.GPIOPins[<<"0">>].Pull
                         /\ DOMAIN jumperless'.GPIOPins = DOMAIN jumperless.GPIOPins
                         /\ \A p \in DOMAIN jumperless.GPIOPins \ {<<"0">>} :
                                jumperless'.GPIOPins[p] = jumperless.GPIOPins[p]
                         /\ jumperless'.DACChannels = jumperless.DACChannels
                         /\ jumperless'.ADCChannels = jumperless.ADCChannels
                         /\ jumperless'.Connections = jumperless.Connections
                /\ (workers'[w] # workers[w] /\ workers[w].pc # "process")
                      => jumperless' = jumperless
      ]_vars

\* Pin 0 holds 1 after a gpio_set(0, 1), still an input without pull.
C27_Witness ==
    \E w \in DOMAIN workers :
        /\ handled[w].request = GpioSetHigh
        /\ workers[w].pc = "done"
        /\ jumperless.GPIOPins[<<"0">>] = [Value |-> 1, Direction |-> "input", Pull |-> "none"]


\* C28: placeholder substitution always produces its text and changes no
\* hardware state: a DAC or ADC id the state does not hold gives 0.00V, an
\* unknown pin gives 0, a known pin its value, and {{is_connected:A:B}} and
\* {{is_connected:B:A}} give the same word, true exactly when an entry of
\* connections joins A and B in either order.
C28_PlaceholdersReadOnly ==
    [][\A w \in DOMAIN workers :
          (/\ config.name = "commands"
           /\ workers[w].pc = "finish"
           /\ workers'[w].pc \in {"write", "done"})
             => LET text  == workers'[w].out[1]
                    conns == jumperless'.Connections
                    joined == \E i \in DOMAIN conns :
                                 {conns[i].NodeA, conns[i].NodeB} = {<<"A">>, <<"B">>}
                IN  /\ Len(workers'[w].out) = 1
                    /\ Len(text) = 14
                    /\ SubSeq(text, 1, 5) = <<"0", ".", "0", "0", "V">>
                    /\ SubSeq(text, 6, 10) = <<"0", ".", "0", "0", "V">>
                    /\ text[11] = "0"
                    /\ text[12] = IF jumperless'.GPIOPins[<<"0">>].Value = 1 THEN "1" ELSE "0"
                    /\ text[13] = IF joined THEN "true" ELSE "false"
                    /\ text[14] = text[13]
                    /\ handled[w].request \in {SetDacTooHigh, SetDacMalformed, GpioSetHigh,
                                               SetDacAndGpioLow}
                          => jumperless' = jumperless
      ]_vars

\* The placeholders have been resolved with the pair stored as (B, A), and
\* again after the connections were cleared.
C28_Witness ==
    \E k, l \in DOMAIN written :
        /\ written[k].data[13] = "true"
        /\ written[k].data[12] = "1"
        /\ written[l].data[13] = "false"


\* C29: a read that leaves the trimmed accumulation non-empty makes the
\* whole trimmed accumulation the request whether or not a mapping matches,
\* and the buffer is empty once the read has been handled; a read that
\* leaves only white space is no request and stays in the buffer, so that
\* between reads the buffer holds white space at most.
C29_BufferResetAfterRequest ==
    [][/\ handled' # handled
          => LET last == handled'[Len(handled')]
                 acc  == requestBuffer \o last.data
             IN  /\ last.request = TrimSpace(acc)
                 /\ last.request = <<>> => requestBuffer' = acc
                 /\ (last.request # <<>> /\ reader' # "sending") => requestBuffer' = <<>>
       /\ (reader = "sending" /\ reader' # "sending") => requestBuffer' = <<>>
       /\ reader' # "sending" => TrimSpace(requestBuffer') = <<>>
      ]_vars

\* A read of white space only was followed by an unmatched request, and the
\* buffer is empty.
C29_Witness ==
    /\ Len(handled) >= 2
    /\ handled[1].request = <<>>
    /\ handled[2].request # <<>>
    /\ handled[2].m = 0
    /\ handled[2].request = TrimSpace(handled[1].data \o handled[2].data)
    /\ requestBuffer = <<>>

\* C29 as stated: once a non-empty read has been handled the buffer is
\* empty.
C29_BufferEmptyAfterEveryRead ==
    (handled # <<>> /\ reader # "sending") => requestBuffer = <<>>


\* C30: a Read that times out, reports end-of-stream or fails otherwise
\* leaves the reader in its loop and changes neither the accumulation
\* buffer, the request counters nor the hardware state; the reader leaves
\* its loop only once the context has been cancelled or shutdown signalled.
C30_ReadErrorsKeepTheLoop ==
    [][/\ (handled' = handled /\ Len(errors') > Len(errors) /\ errors'[Len(errors')].by = 0)
          => /\ reader' = reader
             /\ requestBuffer' = requestBuffer
             /\ requestCounters' = requestCounters
             /\ jumperless' = jumperless
             /\ workers' = workers
       /\ (reader # "exited" /\ reader' = "exited") => ctxDone
      ]_vars

\* After an end-of-stream the reader has handled a further request, with
\* nothing cancelled.
C30_Witness ==
    /\ reader = "running"
    /\ ~ctxDone
    /\ \E k \in DOMAIN errors :
          /\ errors[k].by = 0 /\ errors[k].err = "Client disconnected"
          /\ errors[k].after < Len(handled)
          /\ handled[Len(handled)].m # 0


\* C31: at most one request-reading loop of an emulator runs at any time,
\* whatever calls of Start and Stop are made.
C31_AtMostOneReader ==
    reader # "running twice"


\* C32: when the key "key" occurs in several lines of the section "test",
\* the parsed section holds one entry for it, with the value of the last
\* of those lines.
C32_LastValueOfRepeatedKey ==
    configParsed =>
        LET spaced == <<"<BT>", "[", "test", "]", " ", "key", " ", "=", " ", "value", " ", ";">>
            tight  == <<" ", "<BT>", "[", "test", "]", "key", "=", "value", ";", "\r">>
            at     == {k \in DOMAIN configOutput : configOutput[k] \in {spaced, tight}}
            last   == CHOOSE k \in at : \A i \in at : i <= k
        IN  at # {} =>
               \A i \in DOMAIN sections :
                  sections[i].Name = <<"test">> =>
                     LET entries == sections[i].Entries
                         keyed   == {j \in DOMAIN entries : entries[j].Key = <<"key">>}
                     IN  /\ Cardinality(keyed) = 1
                         /\ \A j \in keyed :
                               entries[j].Value = IF configOutput[last] = spaced
                                                  THEN <<"value", " ">> ELSE <<"value">>

\* The key was given with two values, and the section holds the second.
C32_Witness ==
    /\ configParsed
    /\ Len(configOutput) >= 2
    /\ configOutput[1] = <<" ", "<BT>", "[", "test", "]", "key", "=", "value", ";", "\r">>
    /\ configOutput[2] = <<"<BT>", "[", "test", "]", " ", "key", " ", "=", " ", "value", " ", ";">>
    /\ \E i \in DOMAIN sections :
          /\ sections[i].Name = <<"test">>
          /\ sections[i].Entries = << [Key |-> <<"key">>, Value |-> <<"value", " ">>] >>

\* C32 as stated: the entry of a repeated key holds the value first seen.
C32_FirstValueOfRepeatedKey ==
    configParsed =>
        LET spaced == <<"<BT>", "[", "test", "]", " ", "key", " ", "=", " ", "value", " ", ";">>
            tight  == <<" ", "<BT>", "[", "test", "]", "key", "=", "value", ";", "\r">>
            at     == {k \in DOMAIN configOutput : configOutput[k] \in {spaced, tight}}
            first  == CHOOSE k \in at : \A i \in at : k <= i
        IN  at # {} =>
               \A i \in DOMAIN sections :
                  sections[i].Name = <<"test">> =>
                     LET entries == sections[i].Entries
                         keyed   == {j \in DOMAIN entries : entries[j].Key = <<"key">>}
                     IN  /\ Cardinality(keyed) = 1
                         /\ \A j \in keyed :
                               entries[j].Value = IF configOutput[first] = spaced
                                                  THEN <<"value", " ">> ELSE <<"value">>


\* C33: the response transmitted for the regex mapping of the DAC query is
\* its response text "$1={{dac_voltage:$1}}" with $1 replaced by the
\* channel captured from the request, and holds no other part of the
\* request.
C33_OnlyCapturedTextInResponse ==
    \A k \in DOMAIN written :
        LET w       == written[k].by
            request == handled[w].request
            open    == CHOOSE i \in DOMAIN request : request[i] = "("
            channel == <<request[open + 1]>>
        IN  (/\ config.name = "regex"
             /\ workers[w].m = 2)
               => written[k].data =
                     channel \o <<"=">> \o FormatVoltage(jumperless.DACChannels[channel].Voltage)


\* C34: with chunking enabled and chunkSize > 0 the writes made for a
\* response are, in write order, its consecutive pieces of chunkSize units
\* (the last one of 1 to chunkSize units), at most as many as the response
\* has, and all of them once the delivery is over unless a write failed on
\* the closed file; with chunkSize <= 0 the response is sent in one write.
C34_PiecesInOrder ==
    \A w \in DOMAIN workers :
        LET mapping  == config.Mappings[workers[w].m]
            response == mapping.Response
            size     == mapping.ResponseConfig.ChunkSize
            K        == {k \in DOMAIN written : written[k].by = w}
            nth(k)   == Cardinality({l \in K : l <= k})
            pieces   == IF size > 0 THEN (Len(response) + size - 1) \div size ELSE 1
        IN  config.name = "chunked" =>
              /\ Cardinality(K) <= pieces
              /\ \A k \in K :
                    IF size > 0
                    THEN /\ written[k].data =
                               SubSeq(response, (nth(k) - 1) * size + 1,
                                      IF nth(k) * size < Len(response) THEN nth(k) * size
                                      ELSE Len(response))
                         /\ Len(written[k].data) \in 1..size
                         /\ nth(k) < pieces => Len(written[k].data) = size
                    ELSE written[k].data = response
              /\ (workers[w].pc = "done" /\ ptys.primary = "open") => Cardinality(K) = pieces

\* A response of five units has gone out in pieces of 2, 2 and 1, and a
\* response with chunkSize 0 or -1 in one write.
C34_Witness ==
    /\ config.name = "chunked"
    /\ \E k1, k2, k3 \in DOMAIN written :
          /\ k1 < k2 /\ k2 < k3
          /\ written[k1].by = written[k3].by
          /\ written[k2].by = written[k3].by
          /\ written[k1].data = <<"a", "b">>
          /\ written[k2].data = <<"c", "d">>
          /\ written[k3].data = <<"e">>
          /\ workers[written[k3].by].pc = "done"
    /\ \E k \in DOMAIN written : written[k].data \in {<<"j", "k", "l">>, <<"m", "n", "o">>}

\* C34 as stated: a delivery that is over has written the whole response,
\* piece by piece.
C34_WholeResponseWritten ==
    \A w \in DOMAIN workers :
        LET mapping  == config.Mappings[workers[w].m]
            size     == mapping.ResponseConfig.ChunkSize
            K        == {k \in DOMAIN written : written[k].by = w}
        IN  (config.name = "chunked" /\ workers[w].pc = "done") =>
               Cardinality(K) = IF size > 0 THEN (Len(mapping.Response) + size - 1) \div size
                                ELSE 1


\* C35: responses and state changes follow the order in which the requests
\* were framed: the writes for an earlier request come before the writes
\* for a later one, and once connect(A,B) and then clear() have both been
\* handled no connection is left.
C35_ArrivalOrder ==
    impl = "jumperless-emulator" =>
        /\ \A k, l \in DOMAIN written : k < l => written[k].by <= written[l].by
        /\ ( /\ Len(handled) = 2
             /\ handled[1].request = <<"connect", "(", "A", ",", "B", ")">>
             /\ handled[2].request = <<"clear", "(", ")">>
             /\ \A w \in DOMAIN workers : workers[w].pc = "done" )
           => jumperless.Connections = <<>>


\* C36: under any interleaving of Open, Close and command calls on one
\* port at most one serial handle is open, an Open that has passed its test
\* finds the port closed and a Close that has passed its test finds it
\* open when they take the lock, and no call uses a handle that is not
\* there.
C36_PortCallsExclusive ==
    impl = "jumperless-port" =>
        /\ Cardinality(port.open) <= 1
        /\ \A c \in Callers :
              /\ port.calls[c] = PortCall("Open", "lock", "none") => port.port = 0
              /\ port.calls[c] = PortCall("Close", "lock", "none") => port.port # 0
              /\ port.calls[c] = PortCall("execRawCommand", "lock", "none") => port.port # 0
        /\ ~port.panicked


\* C37: once Stop has cancelled the forwarding loops and the recorder, no
\* forwarding goroutine is left handing a request or a response to a
\* recorder that has returned (a send nothing will receive, with Stop
\* waiting for the goroutine).
C37_NoForwarderLeftAtRecorder ==
    (impl = "proxy" /\ proxy.ctxDone /\ proxy.recorder = "exited") =>
        /\ proxy.v2r.pc # "record"
        /\ proxy.r2v.pc # "record"


\* C38: when reconcileLocal has returned an error, the Ready condition of
\* the status handed to the patch of that reconciliation is not True.
C38_ErrorMeansNotReady ==
    (impl = "controller" /\ recon.last.call = "reconcileLocal" /\ recon.last.err # "nil")
        => recon.last.Ready.Status # "True"


\* C39: every entry of GPIOPins has a value of 0 or 1, a direction of input
\* or output and a pull of none, up or down, also an entry that gpio_set
\* made for a pin the configuration does not hold.
C39_GpioPinsWellFormed ==
    impl = "jumperless-emulator" =>
        \A pin \in DOMAIN jumperless.GPIOPins :
            /\ jumperless.GPIOPins[pin].Value \in {0, 1}
            /\ jumperless.GPIOPins[pin].Direction \in {"input", "output"}
            /\ jumperless.GPIOPins[pin].Pull \in {"none", "up", "down"}


\* C40: under the default configuration no transmitted response holds a
\* placeholder token {{...}}: every one has been resolved.
C40_NoPlaceholderTransmitted ==
    config.name = "default" =>
        \A k \in DOMAIN written :
            \A i \in DOMAIN written[k].data :
                written[k].data[i] \notin {"{{dac_voltage:", "{{adc_voltage:", "{{gpio_value:",
                                           "{{is_connected:", "{{dac_value:", "}}"}

=============================================================================
